---- MODULE Spec2Model ----
(***************************************************************************)
(* Model of the Forguncy project analyzer (electron/ipc/analyzer.ts) and   *)
(* of the 'analyze-project' host handler.                                  *)
(*                                                                         *)
(* A JavaScript string is a sequence of one-character strings.  The BOM    *)
(* character U+FEFF is the one-element string "BOM".                       *)
(***************************************************************************)
EXTENDS Integers, Sequences, FiniteSets, TLC

VARIABLES
    content,      \* extractJson: the argument
    cleaned,      \* extractJson: content with a leading BOM removed
    start,        \* extractJson: index of the first '{' (0-based), -1 if none
    i,            \* extractJson: loop index (0-based)
    braceCount,   \* extractJson: brace depth
    inString,     \* extractJson: inside a string literal
    escape,       \* extractJson: the next character is escaped
    outcome,      \* extractJson: "idle", "scan", "ok", "err"
    value,        \* extractJson: the returned object, or NoValue
    error,        \* extractJson: the kind of the error thrown, or "none"
    envelope,     \* the parts the input text was assembled from, or NoEnvelope
    columnType,   \* extractColumnType: the argument (None when absent)
    typeOut,      \* extractColumnType: the result, None before the call
    typeAgain,    \* extractColumnType applied to its own result, None before
    commands,     \* flattenCommandsToText: the argument, a list of command nodes
    lines,        \* flattenCommandsToText: the returned lines, None before the call
    structured,   \* parseCommands: the returned CommandInfo list, None before the call
    build,        \* which copy of the analyzer runs: "analyzer.ts" or "part_001"
    entries,      \* analyzeProject: zip.getEntries(), None when the file is no zip
    pc,           \* analyzeProject and its caller: the phase the run is in
    pos,          \* the number of entries the running extractor loop has processed
    tables,       \* analyzeTables: const tables
    pages,        \* analyzePages: const pages
    workflows,    \* analyzeProject: const workflows
    serverCommands, \* analyzeServerCommands: const serverCommands
    log,          \* the console.error events of the extractors, in order
    result,       \* analyzeProject: the returned AnalysisResult, None before
    response,     \* the 'analyze-project' handler's return value, None before
    wf,           \* checkWorkflowIssues: the workflow under review
    reviewPc,     \* checkWorkflowIssues: "unused", "start", "reach", "done"
    queue,        \* checkWorkflowIssues: const queue
    reachableStates, \* checkWorkflowIssues: const reachableStates
    issues,       \* checkWorkflowIssues: const issues
    runs,         \* two analyzeProject calls in flight: the locals of each
    console       \* the console both calls write their errors to

jsonVars == <<content, cleaned, start, i, braceCount, inString, escape, outcome, value, error,
              envelope>>

typeVars == <<columnType, typeOut, typeAgain>>

cmdVars == <<commands, lines, structured>>

runVars == <<build, entries, pc, pos, tables, pages, workflows, serverCommands, log, result,
             response>>

reviewVars == <<wf, reviewPc, queue, reachableStates, issues>>

pairVars == <<runs, console>>

vars == <<jsonVars, typeVars, cmdVars, runVars, reviewVars, pairVars>>

notJson == <<typeVars, cmdVars, runVars, reviewVars, pairVars>>

notType == <<jsonVars, cmdVars, runVars, reviewVars, pairVars>>

notCmd == <<jsonVars, typeVars, runVars, reviewVars, pairVars>>

notRun == <<jsonVars, typeVars, cmdVars, reviewVars, pairVars>>

notReview == <<jsonVars, typeVars, cmdVars, runVars, pairVars>>

notPair == <<jsonVars, typeVars, cmdVars, runVars, reviewVars>>

----------------------------------------------------------------------------
(* Bounds *)

\* longest text the character-by-character scan is run on
MaxLen == 5

\* longest prefix and suffix wrapped around a payload
MaxAffix == 1

\* longest column type string drawn from TypeAlphabet
MaxTypeLen == 4

\* deepest nesting of Condition and Loop nodes in a generated command list
MaxDepth == 2

----------------------------------------------------------------------------
(* Optional values: None is undefined, Some(x) is x *)

None == <<>>
Some(x) == <<x>>

----------------------------------------------------------------------------
(* Characters and strings *)

BOM == "BOM"
LBrace == "{"
RBrace == "}"
Quote == "\""
Backslash == "\\"
Colon == ":"
Comma == ","

Alphabet == {LBrace, RBrace, Quote, Backslash, Colon, Comma, "a", BOM}

AffixAlphabet == {LBrace, RBrace, Quote, Backslash, "a"}

StringsUpTo(S, n) == UNION {[1..k -> S] : k \in 0..n}

\* s.slice(from, to) with 0-based from (inclusive) and to (exclusive)
Slice(s, from, to) == SubSeq(s, from + 1, to)

\* s.indexOf(ch): 0-based index of the first occurrence, -1 when there is none
IndexOf(s, ch) ==
    IF \E k \in 1..Len(s) : s[k] = ch
    THEN (CHOOSE k \in 1..Len(s) : s[k] = ch /\ \A j \in 1..(k-1) : s[j] # ch) - 1
    ELSE -1

\* content.replace(/^\uFEFF/, '')
StripBom(s) == IF Len(s) > 0 /\ s[1] = BOM THEN Tail(s) ELSE s

----------------------------------------------------------------------------
(* JSON.parse, for texts over the characters above: objects whose members  *)
(* are strings or objects.  A string is <<"s", chars>>, an object is       *)
(* <<"o", f>> with f the function from its keys to its values (a repeated  *)
(* key keeps its last value).                                              *)

NoValue == <<"none">>

EmptyObj == [k \in {} |-> NoValue]

PutMember(f, k, v) == [x \in (DOMAIN f) \cup {k} |-> IF x = k THEN v ELSE f[x]]

ParseFail == [ok |-> FALSE, val |-> NoValue, pos |-> 0]

\* s[p] is the character after an opening quote; returns the decoded
\* characters and the position after the closing quote
RECURSIVE ParseStringBody(_, _, _)
ParseStringBody(s, p, acc) ==
    IF p > Len(s) THEN ParseFail
    ELSE IF s[p] = Quote THEN [ok |-> TRUE, val |-> <<"s", acc>>, pos |-> p + 1]
    ELSE IF s[p] = Backslash
         THEN IF p + 1 <= Len(s) /\ s[p + 1] \in {Quote, Backslash}
              THEN ParseStringBody(s, p + 2, Append(acc, s[p + 1]))
              ELSE ParseFail
    ELSE ParseStringBody(s, p + 1, Append(acc, s[p]))

RECURSIVE ParseValue(_, _)
RECURSIVE ParseMembers(_, _, _)

\* s[p] is where a member (a key string) must begin
ParseMembers(s, p, f) ==
    IF p > Len(s) \/ s[p] # Quote THEN ParseFail
    ELSE LET key == ParseStringBody(s, p + 1, <<>>) IN
         IF ~key.ok \/ key.pos > Len(s) \/ s[key.pos] # Colon THEN ParseFail
         ELSE LET v == ParseValue(s, key.pos + 1) IN
              IF ~v.ok \/ v.pos > Len(s) THEN ParseFail
              ELSE LET g == PutMember(f, key.val[2], v.val) IN
                   IF s[v.pos] = RBrace
                   THEN [ok |-> TRUE, val |-> <<"o", g>>, pos |-> v.pos + 1]
                   ELSE IF s[v.pos] = Comma THEN ParseMembers(s, v.pos + 1, g)
                   ELSE ParseFail

ParseValue(s, p) ==
    IF p > Len(s) THEN ParseFail
    ELSE IF s[p] = Quote THEN ParseStringBody(s, p + 1, <<>>)
    ELSE IF s[p] = LBrace
         THEN IF p + 1 <= Len(s) /\ s[p + 1] = RBrace
              THEN [ok |-> TRUE, val |-> <<"o", EmptyObj>>, pos |-> p + 2]
              ELSE ParseMembers(s, p + 1, EmptyObj)
    ELSE ParseFail

\* JSON.parse(text): the whole text must be one value
JsonParse(s) ==
    LET r == ParseValue(s, 1) IN
    IF r.ok /\ r.pos = Len(s) + 1 THEN [ok |-> TRUE, val |-> r.val]
    ELSE [ok |-> FALSE, val |-> NoValue]

----------------------------------------------------------------------------
(* extractJson: one iteration of the scan loop (analyzer.ts 99-126).       *)
(* st = [braceCount, inString, escape, ret]; ret is TRUE when the          *)
(* iteration reaches the return statement.                                 *)

ScanInit == [braceCount |-> 0, inString |-> FALSE, escape |-> FALSE, ret |-> FALSE]

\* a scan that goes on after the depth is back at zero and returns one
\* closing brace later
ScanStepReturningLate(st, char) ==
    IF st.escape THEN [st EXCEPT !.escape = FALSE]
    ELSE IF char = Backslash /\ st.inString THEN [st EXCEPT !.escape = TRUE]
    ELSE IF char = Quote THEN [st EXCEPT !.inString = ~st.inString]
    ELSE IF ~st.inString
         THEN IF char = LBrace THEN [st EXCEPT !.braceCount = st.braceCount + 1]
              ELSE IF char = RBrace
                   THEN [st EXCEPT !.braceCount = st.braceCount - 1,
                                   !.ret = (st.braceCount - 1 < 0)]
                   ELSE st
    ELSE st

\* a scan that counts braces inside string literals too
ScanStepCountingInStrings(st, char) ==
    IF st.escape THEN [st EXCEPT !.escape = FALSE]
    ELSE IF char = Backslash /\ st.inString THEN [st EXCEPT !.escape = TRUE]
    ELSE IF char = Quote THEN [st EXCEPT !.inString = ~st.inString]
    ELSE IF char = LBrace THEN [st EXCEPT !.braceCount = st.braceCount + 1]
    ELSE IF char = RBrace
         THEN [st EXCEPT !.braceCount = st.braceCount - 1,
                         !.ret = (st.braceCount - 1 = 0)]
    ELSE st

ScanStep(st, char) ==
    IF st.escape THEN [st EXCEPT !.escape = FALSE]
    ELSE IF char = Backslash /\ st.inString THEN [st EXCEPT !.escape = TRUE]
    ELSE IF char = Quote THEN [st EXCEPT !.inString = ~st.inString]
    ELSE IF ~st.inString
         THEN IF char = LBrace THEN [st EXCEPT !.braceCount = st.braceCount + 1]
              ELSE IF char = RBrace
                   THEN [st EXCEPT !.braceCount = st.braceCount - 1,
                                   !.ret = (st.braceCount - 1 = 0)]
                   ELSE st
    ELSE st

\* the loop from index k (0-based) on: the 0-based index at which it returns,
\* or -1 when it runs off the end of the text
RECURSIVE ScanLoop(_, _, _)
ScanLoop(s, k, st) ==
    IF k >= Len(s) THEN -1
    ELSE LET nx == ScanStep(st, s[k + 1]) IN
         IF nx.ret THEN k ELSE ScanLoop(s, k + 1, nx)

\* extractJson as a function: [ok, val, err]
ExtractJson(c) ==
    LET cl == StripBom(c)
        st == IndexOf(cl, LBrace)
    IN  IF st = -1 THEN [ok |-> FALSE, val |-> NoValue, err |-> "NoJson"]
        ELSE LET e == ScanLoop(cl, st, ScanInit) IN
             IF e = -1 THEN [ok |-> FALSE, val |-> NoValue, err |-> "Unbalanced"]
             ELSE LET p == JsonParse(Slice(cl, st, e + 1)) IN
                  IF p.ok THEN [ok |-> TRUE, val |-> p.val, err |-> "none"]
                  ELSE [ok |-> FALSE, val |-> NoValue, err |-> "Parse"]

----------------------------------------------------------------------------
(* extractJson, statement by statement *)

\* lines 86-97: strip the BOM, find the first '{', throw when there is none
ExtractJsonStart ==
    /\ outcome = "idle"
    /\ cleaned' = StripBom(content)
    /\ start' = IndexOf(StripBom(content), LBrace)
    /\ IF IndexOf(StripBom(content), LBrace) = -1
       THEN /\ outcome' = "err"
            /\ error' = "NoJson"
            /\ UNCHANGED <<i, braceCount, inString, escape>>
       ELSE /\ outcome' = "scan"
            /\ error' = "none"
            /\ i' = IndexOf(StripBom(content), LBrace)
            /\ braceCount' = ScanInit.braceCount
            /\ inString' = ScanInit.inString
            /\ escape' = ScanInit.escape
    /\ UNCHANGED <<content, value, envelope, notJson>>

\* lines 99-126: one iteration of the loop, JSON.parse of the span included
ExtractJsonStep ==
    /\ outcome = "scan"
    /\ i < Len(cleaned)
    /\ LET st == [braceCount |-> braceCount, inString |-> inString,
                  escape |-> escape, ret |-> FALSE]
           nx == ScanStep(st, cleaned[i + 1])
           p  == JsonParse(Slice(cleaned, start, i + 1))
       IN  /\ braceCount' = nx.braceCount
           /\ inString' = nx.inString
           /\ escape' = nx.escape
           /\ IF nx.ret
              THEN /\ i' = i
                   /\ outcome' = IF p.ok THEN "ok" ELSE "err"
                   /\ value' = p.val
                   /\ error' = IF p.ok THEN "none" ELSE "Parse"
              ELSE /\ i' = i + 1
                   /\ UNCHANGED <<outcome, value, error>>
    /\ UNCHANGED <<content, cleaned, start, envelope, notJson>>

\* running off the end of the text returns an empty object instead of throwing
ExtractJsonUnbalancedReturnsEmpty ==
    /\ outcome = "scan"
    /\ i >= Len(cleaned)
    /\ outcome' = "ok"
    /\ value' = <<"o", EmptyObj>>
    /\ UNCHANGED <<content, cleaned, start, i, braceCount, inString, escape, error, envelope, notJson>>

\* line 128: the loop ran off the end of the text
ExtractJsonUnbalanced ==
    /\ outcome = "scan"
    /\ i >= Len(cleaned)
    /\ outcome' = "err"
    /\ error' = "Unbalanced"
    /\ UNCHANGED <<content, cleaned, start, i, braceCount, inString, escape, value, envelope, notJson>>

\* the whole call in one step
ExtractJsonCall ==
    /\ outcome = "idle"
    /\ LET r == ExtractJson(content) IN
       /\ outcome' = IF r.ok THEN "ok" ELSE "err"
       /\ value' = r.val
       /\ error' = r.err
    /\ UNCHANGED <<content, cleaned, start, i, braceCount, inString, escape, envelope, notJson>>

JsonIdle ==
    /\ cleaned = <<>>
    /\ start = -1
    /\ i = 0
    /\ braceCount = 0
    /\ inString = FALSE
    /\ escape = FALSE
    /\ outcome = "idle"
    /\ value = NoValue
    /\ error = "none"

----------------------------------------------------------------------------
(* SpecScan: extractJson run character by character on every short text    *)

\* PREFIX{"k":"} } }"}SUFFIX
BraceInStringText ==
    <<"P","R","E","F","I","X">>
    \o <<LBrace, Quote, "k", Quote, Colon, Quote, RBrace, " ", RBrace, " ", RBrace, Quote, RBrace>>
    \o <<"S","U","F","F","I","X">>

BraceInStringSpan ==
    <<LBrace, Quote, "k", Quote, Colon, Quote, RBrace, " ", RBrace, " ", RBrace, Quote, RBrace>>

SampleTexts ==
    { BraceInStringText,
      \* {"a":"\"}"}a
      <<LBrace, Quote, "a", Quote, Colon, Quote, Backslash, Quote, RBrace, Quote, RBrace, "a">>,
      \* \"{"a":{"a":"\\"}}
      <<Backslash, Quote, LBrace, Quote, "a", Quote, Colon, LBrace, Quote, "a", Quote, Colon,
        Quote, Backslash, Backslash, Quote, RBrace, RBrace>>,
      \* {"a":"{
      <<LBrace, Quote, "a", Quote, Colon, Quote, LBrace>> }

NoEnvelope == [bom |-> FALSE, prefix |-> <<>>, payload |-> <<>>, suffix |-> <<>>]

PairUnused ==
    /\ runs = <<>>
    /\ console = <<>>

ReviewUnused ==
    /\ wf = <<>>
    /\ reviewPc = "unused"
    /\ queue = <<>>
    /\ reachableStates = {}
    /\ issues = <<>>

TypeUnused ==
    /\ columnType = None
    /\ typeOut = None
    /\ typeAgain = None

CmdUnused ==
    /\ commands = <<>>
    /\ lines = None
    /\ structured = None

RunUnused ==
    /\ build = "analyzer.ts"
    /\ entries = None
    /\ pc = "unused"
    /\ pos = 0
    /\ tables = <<>>
    /\ pages = <<>>
    /\ workflows = <<>>
    /\ serverCommands = <<>>
    /\ log = <<>>
    /\ result = None
    /\ response = None

InitScan ==
    /\ content \in StringsUpTo(Alphabet, MaxLen) \cup SampleTexts
    /\ envelope = NoEnvelope
    /\ JsonIdle
    /\ TypeUnused
    /\ CmdUnused
    /\ RunUnused
    /\ ReviewUnused
    /\ PairUnused

NextScan ==
    \/ ExtractJsonStart
    \/ ExtractJsonStep
    \/ ExtractJsonUnbalanced

SpecScan == InitScan /\ [][NextScan]_vars

----------------------------------------------------------------------------
(* SpecEnvelope: extractJson applied to BOM + prefix + payload + suffix    *)

StrLit(chars) == <<Quote>> \o chars \o <<Quote>>

StrLits ==
    { StrLit(<<>>), StrLit(<<"a">>), StrLit(<<RBrace>>), StrLit(<<LBrace>>),
      StrLit(<<Backslash, Quote>>), StrLit(<<RBrace, Backslash, Backslash>>) }

KeyLits == { StrLit(<<"a">>), StrLit(<<LBrace>>) }

Obj1(k, v) == <<LBrace>> \o k \o <<Colon>> \o v \o <<RBrace>>

Obj2(k1, v1, k2, v2) ==
    <<LBrace>> \o k1 \o <<Colon>> \o v1 \o <<Comma>> \o k2 \o <<Colon>> \o v2 \o <<RBrace>>

FlatObjects == { <<LBrace, RBrace>> } \cup { Obj1(k, v) : k \in KeyLits, v \in StrLits }

Payloads ==
    FlatObjects
    \cup { Obj1(StrLit(<<"a">>), o) : o \in FlatObjects }
    \cup { Obj2(StrLit(<<"a">>), v, k, <<LBrace, RBrace>>) : k \in KeyLits, v \in StrLits }
    \cup { Obj2(StrLit(<<"a">>), Obj1(StrLit(<<"a">>), v), StrLit(<<"a">>), v) : v \in StrLits }

Wrap(e) == (IF e.bom THEN <<BOM>> ELSE <<>>) \o e.prefix \o e.payload \o e.suffix

InitEnvelope ==
    /\ envelope \in [bom : BOOLEAN,
                     prefix : StringsUpTo(AffixAlphabet, MaxAffix),
                     payload : Payloads,
                     suffix : StringsUpTo(AffixAlphabet, MaxAffix)]
    /\ content = Wrap(envelope)
    /\ JsonIdle
    /\ TypeUnused
    /\ CmdUnused
    /\ RunUnused
    /\ ReviewUnused
    /\ PairUnused

NextEnvelope == ExtractJsonCall

SpecEnvelope == InitEnvelope /\ [][NextEnvelope]_vars

----------------------------------------------------------------------------
(* Claims about extractJson *)

Chars(s) == {s[k] : k \in 1..Len(s)}

Returned == outcome \in {"ok", "err"}

\* C1 as stated: for every payload, every prefix, every suffix and an
\* optional BOM, extractJson returns the object the payload denotes.
C1_RoundTripAnyPrefix ==
    Returned => (outcome = "ok" /\ value = JsonParse(envelope.payload).val)

\* C1 amended: the same, for every prefix that contains no '{'.
C1_RoundTripBraceFreePrefix ==
    (Returned /\ LBrace \notin Chars(envelope.prefix))
        => (outcome = "ok" /\ value = JsonParse(envelope.payload).val)

\* {"a":{"a":"}"}} wrapped as BOM + } + payload + }
C1_Witness ==
    /\ outcome = "ok"
    /\ envelope.bom
    /\ envelope.prefix = <<RBrace>>
    /\ envelope.suffix = <<RBrace>>
    /\ envelope.payload = Obj1(StrLit(<<"a">>), Obj1(StrLit(<<"a">>), StrLit(<<RBrace>>)))
    /\ value = <<"o", (<<"a">> :> <<"o", (<<"a">> :> <<"s", <<RBrace>>>>)>>)>>

\* the span extractJson hands to JSON.parse when it returns
Span == Slice(cleaned, start, i + 1)

\* C2: in the scan the depth changes only on a brace read outside a string,
\* string context toggles only on a quote that is not escaped, an escaped
\* character changes neither, and PREFIX{"k":"} } }"}SUFFIX yields exactly
\* the span {"k":"} } }"}.
C2_ScanDiscipline ==
    /\ [][(outcome = "scan" /\ i < Len(cleaned)) =>
            LET ch == cleaned[i + 1] IN
            /\ (braceCount' # braceCount) => (ch \in {LBrace, RBrace} /\ ~inString)
            /\ (inString' # inString) => (ch = Quote /\ ~escape)
            /\ escape => (inString' = inString /\ braceCount' = braceCount /\ ~escape')
            /\ (ch = LBrace /\ ~inString) => braceCount' = braceCount + 1
            /\ (ch = RBrace /\ ~inString) => braceCount' = braceCount - 1
            /\ (ch = Quote /\ ~escape) => inString' = ~inString
         ]_vars
    /\ []((content = BraceInStringText /\ Returned)
            => (outcome = "ok" /\ Span = BraceInStringSpan))

C2_Witness ==
    /\ content = BraceInStringText
    /\ outcome = "ok"
    /\ Span = BraceInStringSpan
    /\ value = <<"o", (<<"k">> :> <<"s", <<RBrace, " ", RBrace, " ", RBrace>>>>)>>

\* Section 4.1 read as a function of the text: the depth, string context and
\* escape state after the characters s[from+1 .. k] (0-based from)
RECURSIVE RefState(_, _, _)
RefState(s, from, k) ==
    IF k <= from THEN [depth |-> 0, str |-> FALSE, esc |-> FALSE]
    ELSE LET b == RefState(s, from, k - 1)
             c == s[k]
         IN  IF b.esc THEN [b EXCEPT !.esc = FALSE]
             ELSE IF b.str
                  THEN IF c = Backslash THEN [b EXCEPT !.esc = TRUE]
                       ELSE IF c = Quote THEN [b EXCEPT !.str = FALSE]
                       ELSE b
             ELSE IF c = Quote THEN [b EXCEPT !.str = TRUE]
             ELSE IF c = LBrace THEN [b EXCEPT !.depth = b.depth + 1]
             ELSE IF c = RBrace THEN [b EXCEPT !.depth = b.depth - 1]
             ELSE b

\* the 1-based positions after the first '{' at which the depth is zero
RefClosings(s) ==
    {k \in (IndexOf(s, LBrace) + 1)..Len(s) : RefState(s, IndexOf(s, LBrace), k).depth = 0}

RefSpan(s) ==
    LET k == CHOOSE x \in RefClosings(s) : \A y \in RefClosings(s) : x <= y
    IN  SubSeq(s, IndexOf(s, LBrace) + 1, k)

\* C3: extractJson throws, and returns nothing, exactly when the text has no
\* '{', or the depth never returns to zero, or the balanced span does not
\* parse; otherwise it returns one object.
C3_ErrorCases ==
    Returned =>
        LET s == StripBom(content)
            noBrace == LBrace \notin Chars(s)
            unbalanced == ~noBrace /\ RefClosings(s) = {}
            unparseable == ~noBrace /\ ~unbalanced /\ ~JsonParse(RefSpan(s)).ok
        IN  /\ (outcome = "err") <=> (noBrace \/ unbalanced \/ unparseable)
            /\ (outcome = "err") => value = NoValue
            /\ (error = "NoJson") <=> noBrace
            /\ (error = "Unbalanced") <=> unbalanced
            /\ (error = "Parse") <=> unparseable
            /\ (outcome = "ok") =>
                   /\ value[1] = "o"
                   /\ value = JsonParse(RefSpan(s)).val

C3_Witness ==
    /\ outcome = "err"
    /\ error = "Parse"
    /\ content = <<BOM, LBrace, "a", RBrace>>

----------------------------------------------------------------------------
(* extractColumnType (analyzer.ts 191-196) *)

Dot == "."

Text == <<"T", "e", "x", "t">>

\* s.split(sep) for a one-character separator: the segments, in order
RECURSIVE Split(_, _)
Split(s, sep) ==
    LET k == IndexOf(s, sep) IN
    IF k = -1 THEN <<s>>
    ELSE <<Slice(s, 0, k)>> \o Split(Slice(s, k + 1, Len(s)), sep)

\* extractColumnType without the fallback on an empty last segment
ExtractColumnTypeNoFallback(ct) ==
    IF ct = None \/ ct[1] = <<>> THEN Text
    ELSE LET parts == Split(Split(ct[1], Comma)[1], Dot) IN
         parts[Len(parts)]

\* ct is None (undefined) or Some(string)
ExtractColumnType(ct) ==
    IF ct = None \/ ct[1] = <<>> THEN Text
    ELSE LET parts == Split(Split(ct[1], Comma)[1], Dot) IN
         IF parts[Len(parts)] # <<>> THEN parts[Len(parts)] ELSE Text

----------------------------------------------------------------------------
(* SpecColumnType: extractColumnType on every short string *)

TypeAlphabet == {Dot, Comma, "a", " "}

\* A.B.ColumnType.Number, Assembly=1.0
QualifiedNumber ==
    <<"A", Dot, "B", Dot, "C", "o", "l", "u", "m", "n", "T", "y", "p", "e", Dot,
      "N", "u", "m", "b", "e", "r", Comma, " ", "A", "s", "s", "e", "m", "b", "l", "y",
      "=", "1", Dot, "0">>

Number == <<"N", "u", "m", "b", "e", "r">>

TypeStrings == StringsUpTo(TypeAlphabet, MaxTypeLen) \cup {Text, QualifiedNumber}

ExtractColumnTypeCall ==
    /\ typeOut = None
    /\ typeOut' = Some(ExtractColumnType(columnType))
    /\ UNCHANGED <<columnType, typeAgain, notType>>

ExtractColumnTypeAgain ==
    /\ typeOut # None
    /\ typeAgain = None
    /\ typeAgain' = Some(ExtractColumnType(typeOut))
    /\ UNCHANGED <<columnType, typeOut, notType>>

JsonUnused ==
    /\ content = <<>>
    /\ envelope = NoEnvelope
    /\ JsonIdle

InitColumnType ==
    /\ columnType \in {None} \cup {Some(s) : s \in TypeStrings}
    /\ typeOut = None
    /\ typeAgain = None
    /\ JsonUnused
    /\ CmdUnused
    /\ RunUnused
    /\ ReviewUnused
    /\ PairUnused

NextColumnType ==
    \/ ExtractColumnTypeCall
    \/ ExtractColumnTypeAgain

SpecColumnType == InitColumnType /\ [][NextColumnType]_vars

\* C7: normalizing a normalized type changes nothing; a name without dots
\* and commas is returned as it is, the qualified example yields Number, and
\* an absent or empty input yields Text.
C7_Idempotent ==
    /\ typeAgain # None => typeAgain = typeOut
    /\ typeOut # None =>
        /\ (columnType = None \/ columnType = Some(<<>>)) => typeOut = Some(Text)
        /\ (/\ columnType # None
            /\ columnType # Some(<<>>)
            /\ Dot \notin Chars(columnType[1])
            /\ Comma \notin Chars(columnType[1])) => typeOut = columnType
        /\ columnType = Some(QualifiedNumber) => typeOut = Some(Number)

\* "a." normalizes to Text, and Text normalizes to Text
C7_Witness ==
    /\ columnType = Some(<<"a", Dot>>)
    /\ typeOut = Some(Text)
    /\ typeAgain = Some(Text)

----------------------------------------------------------------------------
(* Command nodes (ForguncyCommand).  A string here is a sequence of atoms:  *)
(* each recognized command name, "." and "," are one atom, and any other    *)
(* atom stands for text in which no recognized name occurs.  A field that   *)
(* may be missing is None or Some(value).                                   *)

Cmd(type, cond, trueCmds, falseCmds, body, sql, table, emailTo, emailSubject, serverCmd) ==
    [type |-> type, Condition |-> cond, TrueCommands |-> trueCmds,
     FalseCommands |-> falseCmds, Commands |-> body, SqlStatement |-> sql,
     TableName |-> table, EmailTo |-> emailTo, EmailSubject |-> emailSubject,
     ServerCommandName |-> serverCmd]

\* a ForguncyCondition node
Cond(type, expression, left, operator, right) ==
    [type |-> type, Expression |-> expression, LeftOperand |-> left,
     Operator |-> operator, RightOperand |-> right]

\* s.includes(word), for a word that is one atom
Includes(s, word) == word \in Chars(s)

\* `${x}` for a field that may be undefined
Interpolate(opt) == IF opt = None THEN <<"undefined">> ELSE opt[1]

\* x || dflt for a string field
OrElse(opt, dflt) == IF opt = None \/ opt[1] = <<>> THEN dflt ELSE opt[1]

\* x || [] for a list field
ListOf(opt) == IF opt = None THEN <<>> ELSE opt[1]

\* cmd['$type'] || ''
TypeOf(cmd) == OrElse(cmd.type, <<>>)

\* extractCommandTypeName without the Unknown fallbacks
ExtractCommandTypeNameNoFallback(typeString) ==
    IF typeString = <<>> THEN <<>>
    ELSE LET parts == Split(Split(typeString, Comma)[1], Dot) IN parts[Len(parts)]

\* extractCommandTypeName (analyzer.ts 329-333)
ExtractCommandTypeName(typeString) ==
    IF typeString = <<>> THEN <<"Unknown">>
    ELSE LET parts == Split(Split(typeString, Comma)[1], Dot) IN
         IF parts[Len(parts)] # <<>> THEN parts[Len(parts)] ELSE <<"Unknown">>

\* formatCondition (analyzer.ts 362-374); "(no condition)" is the fixed
\* placeholder text
FormatCondition(cond) ==
    IF cond = None THEN <<"(no condition)">>
    ELSE IF cond[1].Expression # None /\ cond[1].Expression[1] # <<>>
         THEN cond[1].Expression[1]
    ELSE OrElse(cond[1].LeftOperand, <<>>) \o <<" ">>
         \o OrElse(cond[1].Operator, <<"==">>) \o <<" ">>
         \o OrElse(cond[1].RightOperand, <<>>)

\* one space for each level
IndentOneSpace(depth) == [k \in 1..depth |-> " "]

\* '  '.repeat(depth)
Indent(depth) == [k \in 1..depth |-> "  "]

NewLine == "\n"

\* an ELSE branch whenever FalseCommands is present, empty or not
HasFalseBranchIfPresent(cmd) == cmd.FalseCommands # None

\* cmd.FalseCommands && cmd.FalseCommands.length > 0 (analyzer.ts 658)
HasFalseBranch(cmd) == cmd.FalseCommands # None /\ Len(cmd.FalseCommands[1]) > 0

\* a flattener that leaves a Loop without a body unclosed
RECURSIVE FlattenCommandsToTextLoopUnclosed(_, _)
FlattenCommandsToTextLoopUnclosed(cmds, depth) ==
    IF cmds = <<>> THEN <<>>
    ELSE LET cmd == Head(cmds)
             cmdType == TypeOf(cmd)
             typeName == ExtractCommandTypeName(cmdType)
             indent == Indent(depth)
             sqlLines == Split(OrElse(cmd.SqlStatement, <<>>), NewLine)
         IN  (IF Includes(cmdType, "ConditionCommand")
              THEN <<indent \o <<"IF ">> \o FormatCondition(cmd.Condition) \o <<" THEN">>>>
                   \o (IF cmd.TrueCommands # None
                       THEN FlattenCommandsToTextLoopUnclosed(cmd.TrueCommands[1], depth + 1) ELSE <<>>)
                   \o (IF HasFalseBranch(cmd)
                       THEN <<indent \o <<"ELSE">>>>
                            \o FlattenCommandsToTextLoopUnclosed(cmd.FalseCommands[1], depth + 1)
                       ELSE <<>>)
                   \o <<indent \o <<"END IF">>>>
              ELSE IF Includes(cmdType, "LoopCommand")
              THEN <<indent \o <<"LOOP">>>>
                   \o (IF cmd.Commands # None
                       THEN FlattenCommandsToTextLoopUnclosed(cmd.Commands[1], depth + 1) ELSE <<>>)
                   \o (IF cmd.Commands # None THEN <<indent \o <<"END LOOP">>>> ELSE <<>>)
              ELSE IF Includes(cmdType, "ExecuteSqlCommand")
              THEN <<indent \o <<"EXECUTE SQL:">>>>
                   \o [k \in 1..Len(sqlLines) |-> indent \o <<"  ">> \o sqlLines[k]]
              ELSE IF Includes(cmdType, "UpdateTableDataCommand")
              THEN <<indent \o <<"UPDATE TABLE: ">> \o Interpolate(cmd.TableName)>>
              ELSE IF Includes(cmdType, "InsertTableDataCommand")
              THEN <<indent \o <<"INSERT INTO TABLE: ">> \o Interpolate(cmd.TableName)>>
              ELSE IF Includes(cmdType, "DeleteTableDataCommand")
              THEN <<indent \o <<"DELETE FROM TABLE: ">> \o Interpolate(cmd.TableName)>>
              ELSE IF Includes(cmdType, "SendEmailCommand")
              THEN <<indent \o <<"SEND EMAIL TO: ">> \o Interpolate(cmd.EmailTo),
                     indent \o <<"  ", "SUBJECT: ">> \o Interpolate(cmd.EmailSubject)>>
              ELSE IF Includes(cmdType, "CallServerCommandCommand")
              THEN <<indent \o <<"CALL SERVER COMMAND: ">>
                     \o OrElse(cmd.ServerCommandName, <<"(unknown)">>)>>
              ELSE <<indent \o typeName>>)
             \o FlattenCommandsToTextLoopUnclosed(Tail(cmds), depth)

\* flattenCommandsToText (analyzer.ts 645-693): the lines pushed for the
\* first command, followed by those of the rest of the list
RECURSIVE FlattenCommandsToText(_, _)
FlattenCommandsToText(cmds, depth) ==
    IF cmds = <<>> THEN <<>>
    ELSE LET cmd == Head(cmds)
             cmdType == TypeOf(cmd)
             typeName == ExtractCommandTypeName(cmdType)
             indent == Indent(depth)
             sqlLines == Split(OrElse(cmd.SqlStatement, <<>>), NewLine)
         IN  (IF Includes(cmdType, "ConditionCommand")
              THEN <<indent \o <<"IF ">> \o FormatCondition(cmd.Condition) \o <<" THEN">>>>
                   \o (IF cmd.TrueCommands # None
                       THEN FlattenCommandsToText(cmd.TrueCommands[1], depth + 1) ELSE <<>>)
                   \o (IF HasFalseBranch(cmd)
                       THEN <<indent \o <<"ELSE">>>>
                            \o FlattenCommandsToText(cmd.FalseCommands[1], depth + 1)
                       ELSE <<>>)
                   \o <<indent \o <<"END IF">>>>
              ELSE IF Includes(cmdType, "LoopCommand")
              THEN <<indent \o <<"LOOP">>>>
                   \o (IF cmd.Commands # None
                       THEN FlattenCommandsToText(cmd.Commands[1], depth + 1) ELSE <<>>)
                   \o <<indent \o <<"END LOOP">>>>
              ELSE IF Includes(cmdType, "ExecuteSqlCommand")
              THEN <<indent \o <<"EXECUTE SQL:">>>>
                   \o [k \in 1..Len(sqlLines) |-> indent \o <<"  ">> \o sqlLines[k]]
              ELSE IF Includes(cmdType, "UpdateTableDataCommand")
              THEN <<indent \o <<"UPDATE TABLE: ">> \o Interpolate(cmd.TableName)>>
              ELSE IF Includes(cmdType, "InsertTableDataCommand")
              THEN <<indent \o <<"INSERT INTO TABLE: ">> \o Interpolate(cmd.TableName)>>
              ELSE IF Includes(cmdType, "DeleteTableDataCommand")
              THEN <<indent \o <<"DELETE FROM TABLE: ">> \o Interpolate(cmd.TableName)>>
              ELSE IF Includes(cmdType, "SendEmailCommand")
              THEN <<indent \o <<"SEND EMAIL TO: ">> \o Interpolate(cmd.EmailTo),
                     indent \o <<"  ", "SUBJECT: ">> \o Interpolate(cmd.EmailSubject)>>
              ELSE IF Includes(cmdType, "CallServerCommandCommand")
              THEN <<indent \o <<"CALL SERVER COMMAND: ">>
                     \o OrElse(cmd.ServerCommandName, <<"(unknown)">>)>>
              ELSE <<indent \o typeName>>)
             \o FlattenCommandsToText(Tail(cmds), depth)

----------------------------------------------------------------------------
(* parseCommands, parseConditions, parseAssignees, parseWorkflow.  The      *)
(* Japanese label texts of the source are written as ASCII atoms.           *)

\* generateCommandDescription (analyzer.ts 335-360)
GenerateCommandDescription(cmd, typeName) ==
    CASE typeName = <<"ExecuteSqlCommand">> -> <<"SQL">>
      [] typeName = <<"UpdateTableDataCommand">> -> <<"UPDATE: ">> \o OrElse(cmd.TableName, <<>>)
      [] typeName = <<"InsertTableDataCommand">> -> <<"INSERT: ">> \o OrElse(cmd.TableName, <<>>)
      [] typeName = <<"DeleteTableDataCommand">> -> <<"DELETE: ">> \o OrElse(cmd.TableName, <<>>)
      [] typeName = <<"SendEmailCommand">> -> <<"EMAIL">>
      [] typeName = <<"ConditionCommand">> -> <<"CONDITION">>
      [] typeName = <<"LoopCommand">> -> <<"LOOP">>
      [] typeName = <<"SetCellValueCommand">> -> <<"SET CELL">>
      [] typeName = <<"NavigateCommand">> -> <<"NAVIGATE">>
      [] typeName = <<"CallServerCommandCommand">> -> <<"CALL">>
      [] OTHER -> typeName

\* CommandInfo.details: {} has every field None
Details(sql, table, to, subject) == [sql |-> sql, table |-> table, to |-> to, subject |-> subject]

\* parseCommand and parseCommands (analyzer.ts 285-327)
RECURSIVE ParseCommand(_)
ParseCommands(cmds) == [k \in 1..Len(cmds) |-> ParseCommand(cmds[k])]

\* the four if statements assign in turn, so the last one that applies wins
ParseCommand(cmd) ==
    LET cmdType == TypeOf(cmd)
        typeName == ExtractCommandTypeName(cmdType)
        isCondition == typeName = <<"ConditionCommand">> \/ Includes(cmdType, "ConditionCommand")
        isSql == Includes(cmdType, "ExecuteSqlCommand")
        isUpdate == Includes(cmdType, "UpdateTableDataCommand")
        isEmail == Includes(cmdType, "SendEmailCommand")
    IN  [type |-> typeName,
         description |->
            IF isEmail THEN <<"EMAIL: ">> \o OrElse(cmd.EmailSubject, <<"(no subject)">>)
            ELSE IF isUpdate THEN <<"UPDATE: ">> \o Interpolate(cmd.TableName)
            ELSE IF isSql THEN <<"SQL: ">> \o OrElse(cmd.SqlStatement, <<>>) \o <<"...">>
            ELSE IF isCondition THEN <<"IF ">> \o FormatCondition(cmd.Condition)
            ELSE GenerateCommandDescription(cmd, typeName),
         details |->
            IF isEmail THEN Details(None, None, cmd.EmailTo, cmd.EmailSubject)
            ELSE IF isUpdate THEN Details(None, cmd.TableName, None, None)
            ELSE IF isSql THEN Details(cmd.SqlStatement, None, None, None)
            ELSE Details(None, None, None, None),
         subCommands |->
            IF isCondition
            THEN Some(ParseCommands(ListOf(cmd.TrueCommands))
                      \o (IF cmd.FalseCommands # None
                          THEN ParseCommands(cmd.FalseCommands[1])
                          ELSE <<>>))
            ELSE None]

\* parseConditions keeping a condition of an unknown shape as one of type
\* "unknown"
ParseConditionsKeepingUnknown(condition) ==
    IF condition = None THEN <<>>
    ELSE LET condType == OrElse(condition[1].type, <<>>) IN
         IF Includes(condType, "ExpressionCondition")
         THEN <<[type |-> "expression", expression |-> condition[1].Expression,
                 field |-> None, operator |-> None, value |-> None]>>
         ELSE IF Includes(condType, "CompareCondition")
         THEN <<[type |-> "compare", expression |-> None,
                 field |-> Some(OrElse(condition[1].LeftOperand, <<>>)),
                 operator |-> Some(OrElse(condition[1].Operator, <<"==">>)),
                 value |-> Some(OrElse(condition[1].RightOperand, <<>>))]>>
         ELSE <<[type |-> "unknown", expression |-> None,
                 field |-> None, operator |-> None, value |-> None]>>

\* parseConditions (analyzer.ts 236-257)
ParseConditions(condition) ==
    IF condition = None THEN <<>>
    ELSE LET condType == OrElse(condition[1].type, <<>>) IN
         IF Includes(condType, "ExpressionCondition")
         THEN <<[type |-> "expression", expression |-> condition[1].Expression,
                 field |-> None, operator |-> None, value |-> None]>>
         ELSE IF Includes(condType, "CompareCondition")
         THEN <<[type |-> "compare", expression |-> None,
                 field |-> Some(OrElse(condition[1].LeftOperand, <<>>)),
                 operator |-> Some(OrElse(condition[1].Operator, <<"==">>)),
                 value |-> Some(OrElse(condition[1].RightOperand, <<>>))]>>
         ELSE <<>>

\* a ForguncyAssignee node
Assignee(type, user, role, field) ==
    [type |-> type, UserName |-> user, RoleName |-> role, FieldName |-> field]

\* parseAssignees (analyzer.ts 262-280)
ParseAssignee(a) ==
    LET aType == OrElse(a.type, <<>>) IN
    IF Includes(aType, "UserAssignee") THEN [type |-> "user", value |-> OrElse(a.UserName, <<>>)]
    ELSE IF Includes(aType, "RoleAssignee") THEN [type |-> "role", value |-> OrElse(a.RoleName, <<>>)]
    ELSE IF Includes(aType, "FieldAssignee") THEN [type |-> "field", value |-> OrElse(a.FieldName, <<>>)]
    ELSE IF Includes(aType, "CreatorAssignee") THEN [type |-> "creator", value |-> <<"creator">>]
    ELSE IF Includes(aType, "PreviousAssignee")
         THEN [type |-> "previousAssignee", value |-> <<"previous assignee">>]
    ELSE [type |-> "user", value |-> <<"unknown">>]

\* parseAssignees leaving out the assignees of no known kind
ParseAssigneesDroppingUnknown(assignees) ==
    SelectSeq([k \in 1..Len(assignees) |-> ParseAssignee(assignees[k])],
              LAMBDA r : r.value # <<"unknown">>)

ParseAssignees(assignees) == [k \in 1..Len(assignees) |-> ParseAssignee(assignees[k])]

\* parseWorkflow that takes an absent flag for false
ParseWorkflowDefaultingFalse(tableName, wfData) ==
    [tableName |-> tableName,
     states |-> [k \in 1..Len(ListOf(wfData.States)) |->
                    LET state == wfData.States[1][k] IN
                    [name |-> OrElse(state.Name, <<>>),
                     isInitial |-> IF state.IsInitialState = None THEN Some(FALSE) ELSE state.IsInitialState,
                     isFinal |-> IF state.IsFinalState = None THEN Some(FALSE) ELSE state.IsFinalState]],
     transitions |-> [k \in 1..Len(ListOf(wfData.Transitions)) |->
                    LET trans == wfData.Transitions[1][k] IN
                    [fromState |-> OrElse(trans.SourceStateName, <<>>),
                     toState |-> OrElse(trans.TargetStateName, <<>>),
                     action |-> OrElse(trans.ActionName, <<>>),
                     conditions |-> ParseConditions(trans.Condition),
                     assignees |-> ParseAssignees(ListOf(trans.Assignees)),
                     commands |-> ParseCommands(ListOf(trans.Commands))]]]

\* parseWorkflow (analyzer.ts 201-231)
ParseWorkflow(tableName, wfData) ==
    [tableName |-> tableName,
     states |-> [k \in 1..Len(ListOf(wfData.States)) |->
                    LET state == wfData.States[1][k] IN
                    [name |-> OrElse(state.Name, <<>>),
                     isInitial |-> state.IsInitialState,
                     isFinal |-> state.IsFinalState]],
     transitions |-> [k \in 1..Len(ListOf(wfData.Transitions)) |->
                    LET trans == wfData.Transitions[1][k] IN
                    [fromState |-> OrElse(trans.SourceStateName, <<>>),
                     toState |-> OrElse(trans.TargetStateName, <<>>),
                     action |-> OrElse(trans.ActionName, <<>>),
                     conditions |-> ParseConditions(trans.Condition),
                     assignees |-> ParseAssignees(ListOf(trans.Assignees)),
                     commands |-> ParseCommands(ListOf(trans.Commands))]]]

----------------------------------------------------------------------------
(* SpecFlatten: flattenCommandsToText on nested command lists *)

NoCond == None

CondNode(cond, trueCmds, falseCmds) ==
    Cmd(Some(<<"X", Dot, "ConditionCommand", Comma, "X">>), cond, trueCmds, falseCmds,
        None, None, None, None, None, None)

LoopNode(body) ==
    Cmd(Some(<<"X", Dot, "LoopCommand", Comma, "X">>), None, None, None,
        body, None, None, None, None, None)

LeafNode(type, sql, table, emailTo, emailSubject, serverCmd) ==
    Cmd(type, None, None, None, None, sql, table, emailTo, emailSubject, serverCmd)

\* a command of an unrecognized kind whose label reads ELSE
ElseLabelled == LeafNode(Some(<<"X", Dot, "ELSE">>), None, None, None, None, None)

\* a command of an unrecognized kind whose label starts with a space
SpaceLabelled == LeafNode(Some(<<"X", Dot, " ", "Foo">>), None, None, None, None, None)

LeafCmds ==
    { ElseLabelled, SpaceLabelled,
      LeafNode(Some(<<"X", Dot, "END IF">>), None, None, None, None, None),
      LeafNode(None, None, None, None, None, None),
      LeafNode(Some(<<"X", Dot, "ExecuteSqlCommand", Comma, "X">>),
               Some(<<"ELSE", NewLine, "END IF">>), None, None, None, None),
      LeafNode(Some(<<"X", Dot, "ExecuteSqlCommand">>), None, None, None, None, None),
      LeafNode(Some(<<"X", Dot, "UpdateTableDataCommand">>), None, Some(<<"T">>), None, None, None),
      LeafNode(Some(<<"X", Dot, "InsertTableDataCommand">>), None, None, None, None, None),
      LeafNode(Some(<<"X", Dot, "DeleteTableDataCommand">>), None, Some(<<"T">>), None, None, None),
      LeafNode(Some(<<"X", Dot, "SendEmailCommand">>), None, None, Some(<<"to">>), Some(<<"ELSE">>), None),
      LeafNode(Some(<<"X", Dot, "CallServerCommandCommand">>), None, None, None, None, Some(<<"S">>)),
      LeafNode(Some(<<"X", Dot, "CallServerCommandCommand">>), None, None, None, None, None) }

Conditions ==
    { None,
      Some(Cond(None, Some(<<"a > 1">>), None, None, None)),
      Some(Cond(None, None, Some(<<"l">>), None, None)),
      Some(Cond(None, None, Some(<<"l">>), Some(<<"<">>), Some(<<"r">>))) }

\* the Condition and Loop nodes around a nested list
NodesAround(inner) ==
    { CondNode(NoCond, Some(inner), None),
      CondNode(NoCond, Some(inner), Some(<<>>)),
      CondNode(NoCond, None, Some(inner)),
      CondNode(NoCond, Some(inner), Some(inner)),
      LoopNode(Some(inner)) }

ListsAround(node) == { <<node>>, <<ElseLabelled, node, ElseLabelled>> }

FlatLists ==
    { <<>> } \cup { <<c>> : c \in LeafCmds }
    \cup { <<CondNode(c, Some(<<ElseLabelled>>), Some(<<ElseLabelled>>))>> : c \in Conditions }
    \cup { <<CondNode(NoCond, None, None)>>, <<LoopNode(None)>> }

\* command lists nested at most d deep below their own nodes
RECURSIVE CmdLists(_)
CmdLists(d) ==
    IF d = 0 THEN FlatLists
    ELSE FlatLists
         \cup UNION { UNION { ListsAround(n) : n \in NodesAround(inner) } : inner \in CmdLists(d - 1) }

FlattenCall ==
    /\ lines = None
    /\ lines' = Some(FlattenCommandsToText(commands, 0))
    /\ UNCHANGED <<commands, structured, notCmd>>

InitFlatten ==
    /\ commands \in CmdLists(MaxDepth)
    /\ lines = None
    /\ structured = None
    /\ JsonUnused
    /\ TypeUnused
    /\ RunUnused
    /\ ReviewUnused
    /\ PairUnused

NextFlatten == FlattenCall

SpecFlatten == InitFlatten /\ [][NextFlatten]_vars

----------------------------------------------------------------------------
(* Claims about flattenCommandsToText *)

RECURSIVE LeadingSpaces(_)
LeadingSpaces(line) ==
    IF line = <<>> THEN 0
    ELSE IF Head(line) = "  " THEN 2 + LeadingSpaces(Tail(line))
    ELSE IF Head(line) = " " THEN 1 + LeadingSpaces(Tail(line))
    ELSE 0

RECURSIVE Stripped(_)
Stripped(line) ==
    IF line # <<>> /\ Head(line) \in {"  ", " "} THEN Stripped(Tail(line)) ELSE line

IsCondition(cmd) == Includes(TypeOf(cmd), "ConditionCommand")

IsLoop(cmd) == ~IsCondition(cmd) /\ Includes(TypeOf(cmd), "LoopCommand")

\* The Condition nodes of a command list, each with the index of its IF line
\* in the output: the lines of a list follow base, a Condition's true branch
\* follows its IF line, its false branch follows its ELSE line.
RECURSIVE CondOccurrences(_, _, _)
CondOccurrences(cmds, depth, base) ==
    IF cmds = <<>> THEN {}
    ELSE LET c == Head(cmds)
             n == Len(FlattenCommandsToText(<<c>>, depth))
             nTrue == Len(FlattenCommandsToText(ListOf(c.TrueCommands), depth + 1))
         IN  (IF IsCondition(c)
              THEN {[pos |-> base + 1, depth |-> depth,
                     hasElse |-> (c.FalseCommands # None /\ c.FalseCommands[1] # <<>>)]}
                   \cup CondOccurrences(ListOf(c.TrueCommands), depth + 1, base + 1)
                   \cup CondOccurrences(ListOf(c.FalseCommands), depth + 1, base + 1 + nTrue + 1)
              ELSE IF IsLoop(c)
              THEN CondOccurrences(ListOf(c.Commands), depth + 1, base + 1)
              ELSE {})
             \cup CondOccurrences(Tail(cmds), depth, base + n)

IsIfLine(line) ==
    /\ Stripped(line) # <<>>
    /\ Head(Stripped(line)) = "IF "
    /\ line[Len(line)] = " THEN"

\* C10: between the IF line of a Condition and its matching END IF (the next
\* END IF line at the indentation of the IF line) there is exactly one ELSE
\* line at that indentation when the false-branch is non-empty, and none
\* when it is absent or empty.
C10_OneElse ==
    lines # None =>
        \A occ \in CondOccurrences(commands, 0, 0) :
            LET out == lines[1]
                p == occ.pos
                lead == LeadingSpaces(out[p])
                ends == {q \in (p + 1)..Len(out) :
                            LeadingSpaces(out[q]) = lead /\ Stripped(out[q]) = <<"END IF">>}
                q == CHOOSE x \in ends : \A y \in ends : x <= y
            IN  /\ p <= Len(out)
                /\ IsIfLine(out[p])
                /\ ends # {}
                /\ Cardinality({k \in (p + 1)..(q - 1) :
                                    LeadingSpaces(out[k]) = lead /\ Stripped(out[k]) = <<"ELSE">>})
                     = IF occ.hasElse THEN 1 ELSE 0

\* IF / ELSE-labelled command / ELSE / IF with no false-branch / END IF / END IF
C10_Witness ==
    /\ commands = <<CondNode(NoCond,
                             Some(<<CondNode(NoCond, Some(<<ElseLabelled>>), Some(<<>>))>>),
                             Some(<<CondNode(NoCond, Some(<<ElseLabelled>>), Some(<<>>))>>))>>
    /\ lines = Some(<< <<"IF ", "(no condition)", " THEN">>,
                       <<"  ", "IF ", "(no condition)", " THEN">>,
                       <<"  ", "  ", "ELSE">>,
                       <<"  ", "END IF">>,
                       <<"ELSE">>,
                       <<"  ", "IF ", "(no condition)", " THEN">>,
                       <<"  ", "  ", "ELSE">>,
                       <<"  ", "END IF">>,
                       <<"END IF">> >>)


\* Every command node of a command list with its nesting depth and the index
\* of its first line in the output.
RECURSIVE CmdOccurrences(_, _, _)
CmdOccurrences(cmds, depth, base) ==
    IF cmds = <<>> THEN {}
    ELSE LET c == Head(cmds)
             n == Len(FlattenCommandsToText(<<c>>, depth))
             nTrue == Len(FlattenCommandsToText(ListOf(c.TrueCommands), depth + 1))
         IN  {[pos |-> base + 1, depth |-> depth, cmd |-> c]}
             \cup (IF IsCondition(c)
                   THEN CmdOccurrences(ListOf(c.TrueCommands), depth + 1, base + 1)
                        \cup CmdOccurrences(ListOf(c.FalseCommands), depth + 1,
                                            base + 1 + nTrue + 1)
                   ELSE IF IsLoop(c)
                   THEN CmdOccurrences(ListOf(c.Commands), depth + 1, base + 1)
                   ELSE {})
             \cup CmdOccurrences(Tail(cmds), depth, base + n)

\* C11 as stated: the first line of a command nested d deep begins with
\* exactly 2*d spaces.
C11_TwoSpacesPerLevel ==
    lines # None =>
        \A occ \in CmdOccurrences(commands, 0, 0) :
            /\ occ.pos <= Len(lines[1])
            /\ LeadingSpaces(lines[1][occ.pos]) = 2 * occ.depth

\* C11, amended: the first line of a command nested d deep is d two-space
\* units followed by the first line the command has at depth 0, so it begins
\* with exactly 2*d spaces unless the label of an unrecognized command itself
\* starts with white space.
C11_IndentThenLabel ==
    lines # None =>
        \A occ \in CmdOccurrences(commands, 0, 0) :
            LET label == FlattenCommandsToText(<<occ.cmd>>, 0)[1] IN
            /\ occ.pos <= Len(lines[1])
            /\ lines[1][occ.pos] = [k \in 1..occ.depth |-> "  "] \o label
            /\ LeadingSpaces(lines[1][occ.pos]) = 2 * occ.depth + LeadingSpaces(label)
            /\ (label[1] \notin {" ", "  "}) => LeadingSpaces(lines[1][occ.pos]) = 2 * occ.depth

\* a Condition inside a Loop inside a Condition: the innermost body lines
\* start with six spaces
C11_Witness ==
    /\ commands = <<CondNode(NoCond,
                             Some(<<LoopNode(Some(<<CondNode(NoCond, Some(<<ElseLabelled>>),
                                                             Some(<<ElseLabelled>>))>>))>>),
                             None)>>
    /\ lines # None
    /\ lines[1][1] = <<"IF ", "(no condition)", " THEN">>
    /\ lines[1][4] = <<"  ", "  ", "  ", "ELSE">>
    /\ lines[1][6] = <<"  ", "  ", "  ", "ELSE">>
    /\ LeadingSpaces(lines[1][4]) = 6

----------------------------------------------------------------------------
(* Archive entries.  An entry name is dir/stem.ext or dir/folder/stem.ext;  *)
(* text is what zip.readAsText returns; data is the object that text        *)
(* denotes, in the fields the extractors read (consulted only when          *)
(* extractJson succeeds on text).                                           *)

EntryName(dir, folder, stem, ext) == [dir |-> dir, folder |-> folder, stem |-> stem, ext |-> ext]

\* e.entryName.startsWith(dir + '/') && e.entryName.endsWith('.json')
IsEntryOf(e, dir) == e.entryName.dir = dir /\ e.entryName.ext = ".json"

\* pathParts.length > 2 ? pathParts[1] : ''
FolderOf(name) == IF name.folder # None THEN name.folder[1] ELSE <<>>

\* path.basename(entry.entryName, '.json')
Basename(name) == name.stem

\* a JSON field read as an array: missing, an array, or some other value
Absent == [kind |-> "absent", items |-> <<>>]
Arr(items) == [kind |-> "array", items |-> items]
NotArray == [kind |-> "other", items |-> <<>>]

\* x || false
OrFalse(opt) == IF opt = None THEN FALSE ELSE opt[1]

\* the attempt of one loop iteration: ok is FALSE when the try block throws
Thrown == [ok |-> FALSE, rec |-> None]
Extracted(rec) == [ok |-> TRUE, rec |-> Some(rec)]

----------------------------------------------------------------------------
(* analyzeTables, the try block of one iteration (analyzer.ts 145-179) *)

\* a JSON scalar: a string, a number by its digits, or null
Scalar(kind, text) == [kind |-> kind, text |-> text]

\* String(v)
StringOf(v) == IF v.kind = "null" THEN <<"n", "u", "l", "l">> ELSE v.text

ColumnInfo(col) ==
    [name |-> OrElse(col.Name, <<>>),
     type |-> ExtractColumnType(col.ColumnType),
     required |-> OrFalse(col.Required),
     unique |-> OrFalse(col.Unique),
     defaultValue |-> IF col.DefaultValue = None THEN None
                      ELSE Some(StringOf(col.DefaultValue[1])),
     description |-> col.Description]

RelationInfo(rel) ==
    [targetTable |-> OrElse(rel.TargetTableName, <<>>),
     sourceColumn |-> OrElse(rel.SourceColumnName, <<>>),
     targetColumn |-> OrElse(rel.TargetColumnName, <<>>),
     type |-> OrElse(rel.RelationType, <<"OneToMany">>)]

TableOf(entry) ==
    LET data == entry.data IN
    IF ~ExtractJson(entry.text).ok THEN Thrown
    ELSE IF data.Columns.kind = "other" \/ data.Relations.kind = "other" THEN Thrown
    ELSE Extracted(
        [name |-> OrElse(data.Name, Basename(entry.entryName)),
         folder |-> FolderOf(entry.entryName),
         columns |-> [k \in 1..Len(data.Columns.items) |-> ColumnInfo(data.Columns.items[k])],
         relations |-> [k \in 1..Len(data.Relations.items) |-> RelationInfo(data.Relations.items[k])],
         workflow |-> IF data.BindingRelatedWorkflow # None
                      THEN Some(ParseWorkflow(OrElse(data.Name, <<>>), data.BindingRelatedWorkflow[1]))
                      ELSE None])

----------------------------------------------------------------------------
(* extractPageElements and extractMenuItems (analyzer.ts 434-543) *)

\* extractMenuItems: the buttons pushed for a list of menu items
RECURSIVE ExtractMenuItemsFrom(_, _, _)
ExtractMenuItemsFrom(items, k, baseCell) ==
    IF k > Len(items) THEN <<>>
    ELSE (IF items[k].CommandList # None /\ Len(items[k].CommandList[1]) > 0
          THEN <<[name |-> <<"menu: ">> \o OrElse(items[k].Text, <<"(no name)">>),
                  cell |-> baseCell,
                  commands |-> ParseCommands(items[k].CommandList[1])]>>
          ELSE <<>>)
         \o (IF items[k].SubItems # None /\ Len(items[k].SubItems[1]) > 0
             THEN ExtractMenuItemsFrom(items[k].SubItems[1], 1, baseCell)
             ELSE <<>>)
         \o ExtractMenuItemsFrom(items, k + 1, baseCell)

ExtractMenuItems(items, baseCell) == ExtractMenuItemsFrom(items, 1, baseCell)

\* what one iteration of the loop over AttachInfos pushes to formulas
CellFormulas(cellAddress, cell) ==
    IF cell.Formula # None /\ cell.Formula[1] # <<>>
    THEN <<[cell |-> cellAddress, formula |-> cell.Formula[1]]>>
    ELSE <<>>

\* ... to buttons
CellButtons(cellAddress, cell) ==
    LET cellType == cell.CellType
        typeStr == IF cellType = None THEN <<>> ELSE OrElse(cellType[1].type, <<>>)
    IN  (IF cellType # None /\ (Includes(typeStr, "MenuCellType")
                                \/ Includes(typeStr, "ForguncyMenuCellType"))
         THEN ExtractMenuItems(ListOf(cellType[1].Items), cellAddress)
         ELSE <<>>)
        \o (IF /\ cellType # None
               /\ Includes(typeStr, "ButtonCellType")
               /\ Len(ListOf(cellType[1].CommandList)) > 0
            THEN <<[name |-> IF cellType[1].Text # None /\ cellType[1].Text[1] # <<>>
                             THEN cellType[1].Text[1]
                             ELSE OrElse(cellType[1].Content, <<"button">>),
                    cell |-> cellAddress,
                    commands |-> ParseCommands(cellType[1].CommandList[1])]>>
            ELSE <<>>)
        \o (IF cell.Commands # None /\ cell.ButtonText # None /\ cell.ButtonText[1] # <<>>
            THEN <<[name |-> cell.ButtonText[1],
                    cell |-> cellAddress,
                    commands |-> ParseCommands(cell.Commands[1])]>>
            ELSE <<>>)

\* ... to cellCommands
CellCommands(cellAddress, cell) ==
    LET cellType == cell.CellType
        typeStr == IF cellType = None THEN <<>> ELSE OrElse(cellType[1].type, <<>>)
    IN  (IF /\ cellType # None
            /\ Len(ListOf(cellType[1].CommandList)) > 0
            /\ ~Includes(typeStr, "ButtonCellType")
         THEN <<[cell |-> cellAddress, event |-> "Click",
                 commands |-> ParseCommands(cellType[1].CommandList[1])]>>
         ELSE <<>>)
        \o (IF cell.Commands # None /\ (cell.ButtonText = None \/ cell.ButtonText[1] = <<>>)
            THEN <<[cell |-> cellAddress, event |-> "Click",
                    commands |-> ParseCommands(cell.Commands[1])]>>
            ELSE <<>>)

\* the pushes of all iterations, in order: those of iteration k and after
RECURSIVE FlattenFrom(_, _)
FlattenFrom(seqs, k) ==
    IF k > Len(seqs) THEN <<>> ELSE seqs[k] \o FlattenFrom(seqs, k + 1)

Flatten(seqs) == FlattenFrom(seqs, 1)

\* attachInfos is the list of [cellAddress, cell] pairs in Object.entries order
ExtractPageElements(attachInfos) ==
    [buttons |-> Flatten([k \in 1..Len(attachInfos) |->
                    CellButtons(attachInfos[k].cellAddress, attachInfos[k].cell[1])]),
     formulas |-> Flatten([k \in 1..Len(attachInfos) |->
                    CellFormulas(attachInfos[k].cellAddress, attachInfos[k].cell[1])]),
     cellCommands |-> Flatten([k \in 1..Len(attachInfos) |->
                    CellCommands(attachInfos[k].cellAddress, attachInfos[k].cell[1])])]

\* analyzePages, the try block of one iteration (analyzer.ts 392-400, 413-421);
\* a cell that is null makes extractPageElements throw
PageOf(entry, type) ==
    LET data == entry.data
        attachInfos == ListOf(data.AttachInfos)
    IN  IF ~ExtractJson(entry.text).ok THEN Thrown
        ELSE IF \E k \in 1..Len(attachInfos) : attachInfos[k].cell = None THEN Thrown
        ELSE Extracted(
            [name |-> OrElse(data.Name, Basename(entry.entryName)),
             type |-> type,
             path |-> entry.entryName]
            @@ ExtractPageElements(attachInfos))

\* extractPageElements of the other copy of the analyzer (part_001 433-471);
\* cells is the list of [cellAddress, cell] pairs of data.Cells
ExtractPageElementsPart001(cells) ==
    [buttons |-> Flatten([k \in 1..Len(cells) |->
                    IF /\ cells[k].cell[1].ButtonText # None
                       /\ cells[k].cell[1].ButtonText[1] # <<>>
                       /\ cells[k].cell[1].Commands # None
                    THEN <<[name |-> cells[k].cell[1].ButtonText[1],
                            cell |-> cells[k].cellAddress,
                            commands |-> ParseCommands(cells[k].cell[1].Commands[1])]>>
                    ELSE <<>>]),
     formulas |-> Flatten([k \in 1..Len(cells) |->
                    CellFormulas(cells[k].cellAddress, cells[k].cell[1])]),
     cellCommands |-> Flatten([k \in 1..Len(cells) |->
                    IF /\ cells[k].cell[1].Commands # None
                       /\ (cells[k].cell[1].ButtonText = None
                           \/ cells[k].cell[1].ButtonText[1] = <<>>)
                    THEN <<[cell |-> cells[k].cellAddress, event |-> "Click",
                            commands |-> ParseCommands(cells[k].cell[1].Commands[1])]>>
                    ELSE <<>>])]

\* analyzePages of the other copy, the try block of one iteration
\* (part_001 390-400, 411-421)
PageOfPart001(entry, type) ==
    LET data == entry.data
        cells == ListOf(data.Cells)
    IN  IF ~ExtractJson(entry.text).ok THEN Thrown
        ELSE IF \E k \in 1..Len(cells) : cells[k].cell = None THEN Thrown
        ELSE Extracted(
            [name |-> OrElse(data.Name, Basename(entry.entryName)),
             type |-> type,
             path |-> entry.entryName]
            @@ ExtractPageElementsPart001(cells))

\* the try block of the copy of the analyzer that runs
PageOfCopy(entry, type, copy) ==
    IF copy = "part_001" THEN PageOfPart001(entry, type) ELSE PageOf(entry, type)

----------------------------------------------------------------------------
(* analyzeServerCommands, the try block of one iteration *)

DateTime == <<"D", "a", "t", "e", "T", "i", "m", "e">>
Integer == <<"I", "n", "t", "e", "g", "e", "r">>
Decimal == <<"D", "e", "c", "i", "m", "a", "l">>

\* inferParameterType that knows no number type
InferParameterTypeAlwaysText(validationInfo) == Text

\* inferParameterType (analyzer.ts 626-640)
InferParameterType(validationInfo) ==
    IF validationInfo = None THEN Text
    ELSE CASE validationInfo[1].NumberType = Some(4) -> DateTime
           [] validationInfo[1].NumberType = Some(1) -> Integer
           [] validationInfo[1].NumberType = Some(2) -> Decimal
           [] OTHER -> Text

\* the legacy shape: data.Parameters mapped one by one
LegacyParameters(params) ==
    [k \in 1..Len(params) |->
        [name |-> OrElse(params[k].Name, <<>>),
         type |-> ExtractColumnType(params[k].Type),
         required |-> OrFalse(params[k].Required),
         defaultValue |-> IF params[k].DefaultValue = None THEN None
                          ELSE Some(StringOf(params[k].DefaultValue[1]))]]

\* the current shape: Triggers[0].Parameters mapped one by one
TriggerParameters(triggers) ==
    IF Len(triggers) > 0
    THEN LET triggerParams == ListOf(triggers[1].Parameters) IN
         [k \in 1..Len(triggerParams) |->
            [name |-> OrElse(triggerParams[k].Name, <<>>),
             type |-> InferParameterType(triggerParams[k].DataValidationInfo),
             required |-> TRUE,
             defaultValue |-> None]]
    ELSE <<>>

\* analyzer.ts 579-605
ParametersOf(data) ==
    LET parameters == TriggerParameters(ListOf(data.Triggers)) IN
    IF Len(parameters) = 0 /\ data.Parameters # None
    THEN LegacyParameters(data.Parameters[1])
    ELSE parameters

\* the other copy of the analyzer (part_001 508-513)
ParametersOfPart001(data) == LegacyParameters(ListOf(data.Parameters))

\* analyzer.ts 570-614; data.Commands that is no array makes parseCommands throw
ServerCommandOf(entry, copy) ==
    LET data == entry.data IN
    IF ~ExtractJson(entry.text).ok THEN Thrown
    ELSE IF data.Commands.kind = "other" THEN Thrown
    ELSE Extracted(
        [name |-> OrElse(data.Name, Basename(entry.entryName)),
         folder |-> FolderOf(entry.entryName),
         path |-> entry.entryName,
         commands |-> FlattenCommandsToText(data.Commands.items, 0),
         rawCommands |-> ParseCommands(data.Commands.items),
         parameters |-> IF copy = "part_001" THEN ParametersOfPart001(data)
                        ELSE ParametersOf(data)])

----------------------------------------------------------------------------
(* analyzeProject and the 'analyze-project' handler, step by step *)

TableEntries == SelectSeq(ListOf(entries), LAMBDA e : IsEntryOf(e, "Tables"))
PageEntries == SelectSeq(ListOf(entries), LAMBDA e : IsEntryOf(e, "Pages"))
MasterPageEntries == SelectSeq(ListOf(entries), LAMBDA e : IsEntryOf(e, "MasterPages"))
CmdEntries == SelectSeq(ListOf(entries), LAMBDA e : IsEntryOf(e, "ServerCommands"))

LogEvent(what, name) == [what |-> what, entryName |-> name]

\* the handler calls analyzeProject, which opens the zip (types.ts 413-424,
\* analyzer.ts 42-48); new AdmZip throws when the file is no zip
AnalyzeProjectOpen ==
    /\ pc = "start"
    /\ pos' = 0
    /\ pc' = IF entries = None THEN "thrown" ELSE "tables"
    /\ UNCHANGED <<build, entries, tables, pages, workflows, serverCommands, log, result,
                   response, notRun>>

\* the loop without the try block: a failing entry ends the whole run
AnalyzeTablesEntryAborting ==
    /\ pc = "tables"
    /\ pos < Len(TableEntries)
    /\ \E entry \in {TableEntries[pos + 1]} :
       LET r == TableOf(entry)
       IN  IF r.ok
           THEN /\ tables' = Append(tables, r.rec[1])
                /\ pc' = pc
           ELSE /\ tables' = tables
                /\ pc' = "thrown"
    /\ pos' = pos + 1
    /\ UNCHANGED <<build, entries, pages, workflows, serverCommands, log, result, response,
                   notRun>>

\* analyzeTables: one iteration of the loop (analyzer.ts 143-183)
AnalyzeTablesEntry ==
    /\ pc = "tables"
    /\ pos < Len(TableEntries)
    /\ \E entry \in {TableEntries[pos + 1]} :
       LET r == TableOf(entry)
       IN  IF r.ok
           THEN /\ tables' = Append(tables, r.rec[1])
                /\ log' = log
           ELSE /\ tables' = tables
                /\ log' = Append(log, LogEvent("table", entry.entryName))
    /\ pos' = pos + 1
    /\ UNCHANGED <<build, entries, pc, pages, workflows, serverCommands, result, response, notRun>>

\* analyzeTables returns (analyzer.ts 185, 49-51)
AnalyzeTablesReturn ==
    /\ pc = "tables"
    /\ pos >= Len(TableEntries)
    /\ pc' = "pages"
    /\ pos' = 0
    /\ UNCHANGED <<build, entries, tables, pages, workflows, serverCommands, log, result,
                   response, notRun>>

\* the first loop putting each page in front of the earlier ones
AnalyzePagesEntryPrepending ==
    /\ pc = "pages"
    /\ pos < Len(PageEntries)
    /\ \E entry \in {PageEntries[pos + 1]} :
       LET r == PageOf(entry, "page")
       IN  IF r.ok
           THEN /\ pages' = <<r.rec[1]>> \o pages
                /\ log' = log
           ELSE /\ pages' = pages
                /\ log' = Append(log, LogEvent("page", entry.entryName))
    /\ pos' = pos + 1
    /\ UNCHANGED <<build, entries, pc, tables, workflows, serverCommands, result, response, notRun>>

\* analyzePages: one iteration of the first loop (analyzer.ts 390-404)
AnalyzePagesEntry ==
    /\ pc = "pages"
    /\ pos < Len(PageEntries)
    /\ \E entry \in {PageEntries[pos + 1]} :
       LET r == PageOfCopy(entry, "page", build)
       IN  IF r.ok
           THEN /\ pages' = Append(pages, r.rec[1])
                /\ log' = log
           ELSE /\ pages' = pages
                /\ log' = Append(log, LogEvent("page", entry.entryName))
    /\ pos' = pos + 1
    /\ UNCHANGED <<build, entries, pc, tables, workflows, serverCommands, result, response, notRun>>

\* the first loop ends, the master pages are filtered (analyzer.ts 406-409)
AnalyzePagesNextLoop ==
    /\ pc = "pages"
    /\ pos >= Len(PageEntries)
    /\ pc' = "masterPages"
    /\ pos' = 0
    /\ UNCHANGED <<build, entries, tables, pages, workflows, serverCommands, log, result,
                   response, notRun>>

\* the second loop putting each master page in front (unshift for push)
AnalyzeMasterPagesEntryPrepending ==
    /\ pc = "masterPages"
    /\ pos < Len(MasterPageEntries)
    /\ \E entry \in {MasterPageEntries[pos + 1]} :
       LET r == PageOfCopy(entry, "masterPage", build)
       IN  IF r.ok
           THEN /\ pages' = <<r.rec[1]>> \o pages
                /\ log' = log
           ELSE /\ pages' = pages
                /\ log' = Append(log, LogEvent("master page", entry.entryName))
    /\ pos' = pos + 1
    /\ UNCHANGED <<build, entries, pc, tables, workflows, serverCommands, result, response, notRun>>

\* analyzePages: one iteration of the second loop (analyzer.ts 411-425)
AnalyzeMasterPagesEntry ==
    /\ pc = "masterPages"
    /\ pos < Len(MasterPageEntries)
    /\ \E entry \in {MasterPageEntries[pos + 1]} :
       LET r == PageOfCopy(entry, "masterPage", build)
       IN  IF r.ok
           THEN /\ pages' = Append(pages, r.rec[1])
                /\ log' = log
           ELSE /\ pages' = pages
                /\ log' = Append(log, LogEvent("master page", entry.entryName))
    /\ pos' = pos + 1
    /\ UNCHANGED <<build, entries, pc, tables, workflows, serverCommands, result, response, notRun>>

\* analyzePages returns (analyzer.ts 427, 52-54)
AnalyzePagesReturn ==
    /\ pc = "masterPages"
    /\ pos >= Len(MasterPageEntries)
    /\ pc' = "workflows"
    /\ pos' = 0
    /\ UNCHANGED <<build, entries, tables, pages, workflows, serverCommands, log, result,
                   response, notRun>>

\* extractWorkflows taking the bound workflows last table first
ExtractWorkflowsReversed(ts) ==
    LET bound == SelectSeq(ts, LAMBDA t : t.workflow # None) IN
    [k \in 1..Len(bound) |-> bound[Len(bound) + 1 - k].workflow[1]]

\* extractWorkflows (analyzer.ts 548-552, 55-57)
ExtractWorkflows(ts) ==
    LET bound == SelectSeq(ts, LAMBDA t : t.workflow # None) IN
    [k \in 1..Len(bound) |-> bound[k].workflow[1]]

ExtractWorkflowsCall ==
    /\ pc = "workflows"
    /\ workflows' = ExtractWorkflows(tables)
    /\ pc' = "serverCommands"
    /\ UNCHANGED <<build, entries, pos, tables, pages, serverCommands, log, result, response,
                   notRun>>

\* analyzeServerCommands: one iteration of the loop (analyzer.ts 568-618)
AnalyzeServerCommandsEntry ==
    /\ pc = "serverCommands"
    /\ pos < Len(CmdEntries)
    /\ \E entry \in {CmdEntries[pos + 1]} :
       LET r == ServerCommandOf(entry, build)
       IN  IF r.ok
           THEN /\ serverCommands' = Append(serverCommands, r.rec[1])
                /\ log' = log
           ELSE /\ serverCommands' = serverCommands
                /\ log' = Append(log, LogEvent("server command", entry.entryName))
    /\ pos' = pos + 1
    /\ UNCHANGED <<build, entries, pc, tables, pages, workflows, result, response, notRun>>

\* analyzeServerCommands returns (analyzer.ts 620)
AnalyzeServerCommandsReturn ==
    /\ pc = "serverCommands"
    /\ pos >= Len(CmdEntries)
    /\ pc' = "summary"
    /\ pos' = 0
    /\ UNCHANGED <<build, entries, tables, pages, workflows, serverCommands, log, result,
                   response, notRun>>

\* reduce((sum, t) => sum + ..., 0) over the first k numbers
RECURSIVE SumTo(_, _)
SumTo(ns, k) == IF k = 0 THEN 0 ELSE SumTo(ns, k - 1) + ns[k]

Sum(ns) == SumTo(ns, Len(ns))

\* a summary that counts the entries of the archive, skipped ones included
AnalyzeProjectReturnCountingEntries ==
    /\ pc = "summary"
    /\ result' = Some(
        [tables |-> tables,
         pages |-> pages,
         workflows |-> workflows,
         serverCommands |-> serverCommands,
         summary |->
            [tableCount |-> Len(TableEntries),
             pageCount |-> Len(PageEntries) + Len(MasterPageEntries),
             workflowCount |-> Len(workflows),
             serverCommandCount |-> Len(CmdEntries),
             totalColumns |-> Sum([k \in 1..Len(tables) |-> Len(tables[k].columns)]),
             totalRelations |-> Sum([k \in 1..Len(tables) |-> Len(tables[k].relations)])]])
    /\ pc' = "analyzed"
    /\ UNCHANGED <<build, entries, pos, tables, pages, workflows, serverCommands, log, response,
                   notRun>>

\* the summary and the return statement (analyzer.ts 60-77); the project
\* name plays no part here
AnalyzeProjectReturn ==
    /\ pc = "summary"
    /\ result' = Some(
        [tables |-> tables,
         pages |-> pages,
         workflows |-> workflows,
         serverCommands |-> serverCommands,
         summary |->
            [tableCount |-> Len(tables),
             pageCount |-> Len(pages),
             workflowCount |-> Len(workflows),
             serverCommandCount |-> Len(serverCommands),
             totalColumns |-> Sum([k \in 1..Len(tables) |-> Len(tables[k].columns)]),
             totalRelations |-> Sum([k \in 1..Len(tables) |-> Len(tables[k].relations)])]])
    /\ pc' = "analyzed"
    /\ UNCHANGED <<build, entries, pos, tables, pages, workflows, serverCommands, log, response,
                   notRun>>

\* the handler after analyzeProject resolved (types.ts 426-460): review,
\* output folder, documents; writing a document may throw
HandlerFinish ==
    /\ pc = "analyzed"
    /\ \E codeReview \in BOOLEAN, generateSpec \in BOOLEAN, written \in BOOLEAN :
        IF (codeReview \/ generateSpec) /\ ~written
        THEN /\ pc' = "thrown"
             /\ response' = response
        ELSE /\ pc' = "responded"
             /\ response' = Some([success |-> TRUE, analysisResult |-> result,
                                  reviewed |-> codeReview, error |-> None])
    /\ UNCHANGED <<build, entries, pos, tables, pages, workflows, serverCommands, log, result,
                   notRun>>

\* a catch block that hands out the model it has next to the error
HandlerCatchPublishingResult ==
    /\ pc = "thrown"
    /\ pc' = "responded"
    /\ response' = Some([success |-> FALSE, analysisResult |-> result,
                         reviewed |-> FALSE, error |-> Some("error")])
    /\ UNCHANGED <<build, entries, pos, tables, pages, workflows, serverCommands, log, result,
                   notRun>>

\* the handler's catch block (types.ts 461-467)
HandlerCatch ==
    /\ pc = "thrown"
    /\ pc' = "responded"
    /\ response' = Some([success |-> FALSE, analysisResult |-> None,
                         reviewed |-> FALSE, error |-> Some("error")])
    /\ UNCHANGED <<build, entries, pos, tables, pages, workflows, serverCommands, log, result,
                   notRun>>

----------------------------------------------------------------------------
(* Spec: one run of the 'analyze-project' handler over a small archive.     *)
(* An entry is [entryName, text, data]: text holds the characters of the    *)
(* entry as far as extractJson's outcome depends on them (the members of    *)
(* the document are left out), data is the document those characters hold.  *)

MaxEntries == 3

Entry(name, text, data) == [entryName |-> name, text |-> text, data |-> data]

\* a{}
GoodText == <<"a", LBrace, RBrace>>
\* {"a":"{
UnbalancedText == <<LBrace, Quote, "a", Quote, Colon, Quote, LBrace>>
\* {a}
UnparseableText == <<LBrace, "a", RBrace>>
\* a
NoBraceText == <<"a">>

\* the file name of the entry at position k of the listing
Stem(k) == <<"e", ToString(k)>>

Column(name, type, required, unique, dflt, description) ==
    [Name |-> name, ColumnType |-> type, Required |-> required, Unique |-> unique,
     DefaultValue |-> dflt, Description |-> description]

Relation(target, sourceColumn, targetColumn, type) ==
    [TargetTableName |-> target, SourceColumnName |-> sourceColumn,
     TargetColumnName |-> targetColumn, RelationType |-> type]

TableJson(name, columns, relations, workflow) ==
    [Name |-> name, Columns |-> columns, Relations |-> relations,
     BindingRelatedWorkflow |-> workflow]

State(name, isInitial, isFinal) ==
    [Name |-> name, IsInitialState |-> isInitial, IsFinalState |-> isFinal]

Transition(from, to, action, cond, assignees, cmds) ==
    [SourceStateName |-> from, TargetStateName |-> to, ActionName |-> action,
     Condition |-> cond, Assignees |-> assignees, Commands |-> cmds]

WorkflowJson(states, transitions) == [States |-> states, Transitions |-> transitions]

SqlLeaf == LeafNode(Some(<<"X", Dot, "ExecuteSqlCommand">>), Some(<<"select">>),
                    None, None, None, None)

SampleWorkflow ==
    WorkflowJson(
        Some(<<State(Some(<<"draft">>), Some(TRUE), None),
               State(Some(<<"done">>), None, Some(TRUE))>>),
        Some(<<Transition(Some(<<"draft">>), Some(<<"done">>), Some(<<"submit">>),
                          Some(Cond(Some(<<"X", Dot, "CompareCondition">>), None,
                                    Some(<<"l">>), None, Some(<<"r">>))),
                          Some(<<Assignee(Some(<<"X", Dot, "RoleAssignee">>), None,
                                          Some(<<"admin">>), None)>>),
                          Some(<<SqlLeaf>>))>>))

SampleColumns ==
    <<Column(Some(<<"id">>), Some(QualifiedNumber), Some(TRUE), Some(TRUE),
             Some(Scalar("number", <<"0">>)), None),
      Column(None, None, None, None, Some(Scalar("null", <<>>)), Some(<<"note">>))>>

SampleRelations ==
    <<Relation(Some(<<"U">>), Some(<<"id">>), Some(<<"id">>), None)>>

TableNamed(k) ==
    Entry(EntryName("Tables", None, Stem(k), ".json"), GoodText,
          TableJson(Some(<<"T">>), Arr(SampleColumns), Arr(SampleRelations),
                    Some(SampleWorkflow)))

TableUnnamed(k) ==
    Entry(EntryName("Tables", Some(<<"f">>), Stem(k), ".json"), GoodText,
          TableJson(None, Absent, Absent, None))

TableUnbalanced(k) ==
    Entry(EntryName("Tables", None, Stem(k), ".json"), UnbalancedText,
          TableJson(None, Absent, Absent, None))

\* a file under Tables/ that is no .json file
TableReadme(k) ==
    Entry(EntryName("Tables", None, Stem(k), ".txt"), GoodText,
          TableJson(Some(<<"T">>), Absent, Absent, None))

Cell(formula, cellType, cmds, buttonText) ==
    [Formula |-> formula, CellType |-> cellType, Commands |-> cmds, ButtonText |-> buttonText]

AttachInfo(cellAddress, cell) == [cellAddress |-> cellAddress, cell |-> cell]

PageJson(name, attachInfos) == [Name |-> name, AttachInfos |-> attachInfos, Cells |-> None]

\* a page that keeps its cells under the key Cells
PageJsonCells(name, cells) == [Name |-> name, AttachInfos |-> None, Cells |-> cells]

PageGood(dir, k) ==
    Entry(EntryName(dir, None, Stem(k), ".json"), GoodText,
          PageJson(None,
                   Some(<<AttachInfo(<<"0,0">>,
                                     Some(Cell(Some(<<"=A1">>), None, Some(<<SqlLeaf>>),
                                               Some(<<"ok">>)))),
                          AttachInfo(<<"1,0">>,
                                     Some(Cell(None, None, Some(<<>>), None)))>>)))

\* a cell that is null
PageNullCell(dir, k) ==
    Entry(EntryName(dir, None, Stem(k), ".json"), GoodText,
          PageJson(Some(<<"P">>), Some(<<AttachInfo(<<"0,0">>, None)>>)))

PageUnparseable(dir, k) ==
    Entry(EntryName(dir, None, Stem(k), ".json"), UnparseableText, PageJson(None, None))

TriggerParam(name, info) == [Name |-> name, DataValidationInfo |-> info]
ValidationInfo(numberType) == [NumberType |-> numberType]
Trigger(params) == [Parameters |-> params]
LegacyParam(name, type, required, dflt) ==
    [Name |-> name, Type |-> type, Required |-> required, DefaultValue |-> dflt]

ServerCommandJson(name, cmds, triggers, params) ==
    [Name |-> name, Commands |-> cmds, Triggers |-> triggers, Parameters |-> params]

CmdGood(k) ==
    Entry(EntryName("ServerCommands", Some(<<"f">>), Stem(k), ".json"), GoodText,
          ServerCommandJson(None, Arr(<<CondNode(NoCond, Some(<<SqlLeaf>>), None)>>),
                            Some(<<Trigger(Some(<<TriggerParam(Some(<<"p">>),
                                                   Some(ValidationInfo(Some(4))))>>))>>),
                            Some(<<LegacyParam(Some(<<"q">>), Some(QualifiedNumber),
                                               None, None)>>)))

CmdNoBrace(k) ==
    Entry(EntryName("ServerCommands", None, Stem(k), ".json"), NoBraceText,
          ServerCommandJson(None, Absent, None, None))

\* the entries a listing may hold at position k
EntriesAt(k) ==
    { TableNamed(k), TableUnnamed(k), TableUnbalanced(k), TableReadme(k),
      PageGood("Pages", k), PageNullCell("Pages", k),
      PageGood("MasterPages", k), PageUnparseable("MasterPages", k),
      CmdGood(k), CmdNoBrace(k) }

RECURSIVE Listings(_)
Listings(n) ==
    IF n = 0 THEN {<<>>}
    ELSE {Append(l, e) : l \in Listings(n - 1), e \in EntriesAt(n)}

Init ==
    /\ build = "analyzer.ts"
    /\ entries \in {None} \cup {Some(l) : l \in UNION {Listings(n) : n \in 0..MaxEntries}}
    /\ pc = "start"
    /\ pos = 0
    /\ tables = <<>>
    /\ pages = <<>>
    /\ workflows = <<>>
    /\ serverCommands = <<>>
    /\ log = <<>>
    /\ result = None
    /\ response = None
    /\ JsonUnused
    /\ TypeUnused
    /\ CmdUnused
    /\ ReviewUnused
    /\ PairUnused

Next ==
    \/ AnalyzeProjectOpen
    \/ AnalyzeTablesEntry
    \/ AnalyzeTablesReturn
    \/ AnalyzePagesEntry
    \/ AnalyzePagesNextLoop
    \/ AnalyzeMasterPagesEntry
    \/ AnalyzePagesReturn
    \/ ExtractWorkflowsCall
    \/ AnalyzeServerCommandsEntry
    \/ AnalyzeServerCommandsReturn
    \/ AnalyzeProjectReturn
    \/ HandlerFinish
    \/ HandlerCatch

Spec == Init /\ [][Next]_vars

----------------------------------------------------------------------------
(* Properties of the run *)

PhaseNo ==
    CASE pc = "start" -> 0
      [] pc = "tables" -> 1
      [] pc = "pages" -> 2
      [] pc = "masterPages" -> 3
      [] pc = "workflows" -> 4
      [] pc = "serverCommands" -> 5
      [] OTHER -> 6

\* the entries of a batch that the loop of phase n has gone through
Processed(batch, n) ==
    IF PhaseNo > n THEN batch
    ELSE IF PhaseNo = n THEN SubSeq(batch, 1, pos)
    ELSE <<>>

Malformed(batch, Of(_)) == SelectSeq(batch, LAMBDA e : ~Of(e).ok)
RecordsOf(batch, Of(_)) ==
    LET attempts == [k \in 1..Len(batch) |-> Of(batch[k])]
        good == SelectSeq(attempts, LAMBDA r : r.ok)
    IN  [k \in 1..Len(good) |-> good[k].rec[1]]
NamesOf(batch) == [k \in 1..Len(batch) |-> batch[k].entryName]
Range(s) == {s[k] : k \in 1..Len(s)}

\* the archive paths the log names for one extractor, in the order logged
Logged(what) ==
    LET events == SelectSeq(log, LAMBDA ev : ev.what = what) IN
    [k \in 1..Len(events) |-> events[k].entryName]

TableRec(e) == TableOf(e)
PageRec(e) == PageOf(e, "page")
MasterPageRec(e) == PageOf(e, "masterPage")
ServerCommandRec(e) == ServerCommandOf(e, build)

\* what one extractor has to show for the entries it has gone through
Isolated(batch, Of(_), out, what) ==
    LET skipped == Malformed(batch, Of) IN
    /\ Len(out) = Len(batch) - Len(skipped)
    /\ Range(out) = Range(RecordsOf(batch, Of))
    /\ Logged(what) = NamesOf(skipped)

\* C4: each extractor returns exactly the records of the well-formed entries
\* of its batch, N - |S| of them, logs each malformed entry once by its
\* archive path, and never lets a failure of an entry end the run: the run
\* is thrown out only when the archive cannot be opened or after the model
\* was returned.
C4_FailureIsolation ==
    /\ Isolated(Processed(TableEntries, 1), TableRec, tables, "table")
    /\ Isolated(Processed(PageEntries, 2), PageRec,
                SelectSeq(pages, LAMBDA p : p.type = "page"), "page")
    /\ Isolated(Processed(MasterPageEntries, 3), MasterPageRec,
                SelectSeq(pages, LAMBDA p : p.type = "masterPage"), "master page")
    /\ Isolated(Processed(CmdEntries, 5), ServerCommandRec, serverCommands, "server command")
    /\ pc = "thrown" => (entries = None \/ result # None)

\* three table entries, two of them malformed, and all extractors returned
C4_Witness ==
    /\ pc = "analyzed"
    /\ Len(TableEntries) = 3
    /\ Len(Malformed(TableEntries, TableRec)) = 2
    /\ Len(tables) = 1
    /\ Len(log) = 2

\* C5: the records of one category stand in the order of the archive listing,
\* the skipped entries left out; the master pages follow the pages.
C5_ListingOrder ==
    /\ tables = RecordsOf(Processed(TableEntries, 1), TableRec)
    /\ pages = RecordsOf(Processed(PageEntries, 2), PageRec)
               \o RecordsOf(Processed(MasterPageEntries, 3), MasterPageRec)
    /\ serverCommands = RecordsOf(Processed(CmdEntries, 5), ServerCommandRec)

\* two pages extracted around one that was skipped
C5_Witness ==
    /\ pc = "responded"
    /\ Len(PageEntries) = 3
    /\ ~PageRec(PageEntries[2]).ok
    /\ Len(pages) = 2
    /\ pages[1].path = PageEntries[1].entryName
    /\ pages[2].path = PageEntries[3].entryName

\* a model all of whose parts are the final output of the four phases
Complete(m) ==
    /\ m.tables = RecordsOf(TableEntries, TableRec)
    /\ m.pages = RecordsOf(PageEntries, PageRec) \o RecordsOf(MasterPageEntries, MasterPageRec)
    /\ m.workflows = ExtractWorkflows(m.tables)
    /\ m.serverCommands = RecordsOf(CmdEntries, ServerCommandRec)
    /\ m.summary.tableCount = Len(m.tables)
    /\ m.summary.pageCount = Len(m.pages)
    /\ m.summary.workflowCount = Len(m.workflows)
    /\ m.summary.serverCommandCount = Len(m.serverCommands)

Published ==
    /\ result # None => (PhaseNo = 6 /\ entries # None /\ Complete(result[1]))
    /\ response # None =>
        \/ /\ response[1].success
           /\ response[1].analysisResult # None
           /\ response[1].analysisResult = result
           /\ response[1].error = None
        \/ /\ ~response[1].success
           /\ response[1].analysisResult = None
           /\ response[1].error # None

\* C6: a model that analyzeProject returns is complete and stays as it is,
\* and the handler answers either success with that model or failure with an
\* error and no model.
C6_NoPartialModel ==
    /\ []Published
    /\ [][result # None => result' = result]_vars

\* the run failed after the model was returned: the answer carries no model
C6_Witness ==
    /\ response # None
    /\ ~response[1].success
    /\ result # None
    /\ Len(result[1].tables) > 0

----------------------------------------------------------------------------
(* SpecTables: analyzeTables on tables whose columns carry every short type *)

\* Columns holds a number: (data.Columns || []).map is no function
TableColumnsNoArray(k) ==
    Entry(EntryName("Tables", None, Stem(k), ".json"), GoodText,
          TableJson(Some(<<"T">>), NotArray, Absent, None))

ColumnTypes == {None} \cup {Some(s) : s \in TypeStrings}

\* absent, empty, ending in a dot, starting with a comma
SecondColumnTypes == {None, Some(<<>>), Some(<<"a", Dot>>), Some(<<Comma, "a">>)}

TableWithColumns(k, t1, t2) ==
    Entry(EntryName("Tables", None, Stem(k), ".json"), GoodText,
          TableJson(None,
                    Arr(<<Column(Some(<<"c1">>), t1, None, None, None, None),
                          Column(Some(<<"c2">>), t2, None, None, None, None)>>),
                    Absent, None))

InitTables ==
    /\ build = "analyzer.ts"
    /\ \E t1 \in ColumnTypes, t2 \in SecondColumnTypes :
        \E rest \in {<<>>, <<TableUnbalanced(2)>>, <<TableColumnsNoArray(2)>>} :
            entries = Some(<<TableWithColumns(1, t1, t2)>> \o rest)
    /\ pc = "tables"
    /\ pos = 0
    /\ tables = <<>>
    /\ pages = <<>>
    /\ workflows = <<>>
    /\ serverCommands = <<>>
    /\ log = <<>>
    /\ result = None
    /\ response = None
    /\ JsonUnused
    /\ TypeUnused
    /\ CmdUnused
    /\ ReviewUnused
    /\ PairUnused

NextTables ==
    \/ AnalyzeTablesEntry
    \/ AnalyzeTablesReturn

SpecTables == InitTables /\ [][NextTables]_vars

\* C8: every column of every extracted table has a type that is not empty,
\* whatever ColumnType the source holds.
C8_TypeNeverEmpty ==
    \A k \in 1..Len(tables) :
        \A c \in 1..Len(tables[k].columns) : tables[k].columns[c].type # <<>>

\* a type ending in a dot beside one starting with a comma: both read Text
C8_Witness ==
    /\ Len(tables) = 1
    /\ TableEntries[1].data.Columns.items[1].ColumnType = Some(<<"a", "a", Dot>>)
    /\ TableEntries[1].data.Columns.items[2].ColumnType = Some(<<Comma, "a">>)
    /\ tables[1].columns[1].type = Text
    /\ tables[1].columns[2].type = Text

----------------------------------------------------------------------------
(* SpecServerCommands: analyzeServerCommands of both copies of the analyzer *)
(* on one server command with every small pair of parameter lists           *)

MaxParams == 2

TriggerParamSamples ==
    { TriggerParam(Some(<<"p">>), None),
      TriggerParam(Some(<<"r">>), Some(ValidationInfo(Some(4)))),
      TriggerParam(None, Some(ValidationInfo(Some(1)))),
      TriggerParam(Some(<<"s">>), Some(ValidationInfo(Some(2)))),
      TriggerParam(Some(<<"t">>), Some(ValidationInfo(None))) }

LegacyParamSamples ==
    { LegacyParam(Some(<<"q">>), Some(QualifiedNumber), Some(TRUE),
                  Some(Scalar("number", <<"1">>))),
      LegacyParam(None, None, None, None),
      LegacyParam(Some(<<"p">>), Some(<<"a", Dot>>), Some(FALSE),
                  Some(Scalar("string", <<>>))) }

TriggersSamples ==
    {None, Some(<<>>), Some(<<Trigger(None)>>)}
    \cup {Some(<<Trigger(Some(ps))>>) : ps \in StringsUpTo(TriggerParamSamples, MaxParams)}
    \cup {Some(<<Trigger(Some(<<>>)), Trigger(Some(<<TriggerParam(Some(<<"p">>), None)>>))>>)}

ParametersSamples ==
    {None} \cup {Some(ps) : ps \in StringsUpTo(LegacyParamSamples, MaxParams)}

CmdWith(k, triggers, params) ==
    Entry(EntryName("ServerCommands", None, Stem(k), ".json"), GoodText,
          ServerCommandJson(Some(<<"S">>), Arr(<<SqlLeaf>>), triggers, params))

InitServerCommands ==
    /\ build \in {"analyzer.ts", "part_001"}
    /\ \E triggers \in TriggersSamples, params \in ParametersSamples :
        entries = Some(<<CmdWith(1, triggers, params)>>)
    /\ pc = "serverCommands"
    /\ pos = 0
    /\ tables = <<>>
    /\ pages = <<>>
    /\ workflows = <<>>
    /\ serverCommands = <<>>
    /\ log = <<>>
    /\ result = None
    /\ response = None
    /\ JsonUnused
    /\ TypeUnused
    /\ CmdUnused
    /\ ReviewUnused
    /\ PairUnused

NextServerCommands ==
    \/ AnalyzeServerCommandsEntry
    \/ AnalyzeServerCommandsReturn

SpecServerCommands == InitServerCommands /\ [][NextServerCommands]_vars

\* the parameters the claim asks for: those of the first trigger when there
\* are any, and the legacy list otherwise
CurrentShapeFirst(data) ==
    LET current == TriggerParameters(ListOf(data.Triggers)) IN
    IF Len(current) > 0 THEN current ELSE LegacyParameters(ListOf(data.Parameters))

\* C9: the parameters of an extracted server command are those of
\* Triggers[0].Parameters, in order, when that list is not empty, whatever
\* the legacy list holds, and the legacy Parameters list, in order, otherwise.
C9_CurrentShapeFirst ==
    \A k \in 1..Len(serverCommands) :
        serverCommands[k].parameters = CurrentShapeFirst(CmdEntries[k].data)

\* C9 for the copy of the analyzer in src/electron/ipc/analyzer.ts alone
C9_CurrentShapeFirstInAnalyzerTs ==
    build = "analyzer.ts" => C9_CurrentShapeFirst

\* C9: the copy in src/unnamed/part_001 returns no parameter for a command
\* whose only parameter stands in Triggers[0].Parameters
C9_Part001DropsTriggerParameters ==
    /\ build = "part_001"
    /\ Len(serverCommands) = 1
    /\ CmdEntries[1].data.Triggers = Some(<<Trigger(Some(<<TriggerParam(Some(<<"p">>), None)>>))>>)
    /\ CmdEntries[1].data.Parameters = Some(<<>>)
    /\ serverCommands[1].parameters = <<>>

----------------------------------------------------------------------------
(* SpecCommands: parseCommands and flattenCommandsToText on the same short  *)
(* lists of command nodes, recognized, unrecognized and nested              *)

MaxCmds == 3

UpdateLeaf ==
    LeafNode(Some(<<"X", Dot, "UpdateTableDataCommand", Comma, "Asm">>), None, Some(<<"T">>),
             None, None, None)

CallLeaf ==
    LeafNode(Some(<<"X", Dot, "CallServerCommandCommand">>), None, None, None, None,
             Some(<<"S">>))

\* no $type at all
UntypedLeaf == LeafNode(None, None, None, None, None, None)

\* X.Foo, Asm
FooLeaf == LeafNode(Some(<<"X", Dot, "Foo", Comma, "Asm">>), None, None, None, None, None)

\* X. : the segment after the last dot is empty
DotEndLeaf == LeafNode(Some(<<"X", Dot>>), None, None, None, None, None)

\* X.Foo, ExecuteSqlCommand : the recognized name stands after the comma
SqlAfterComma ==
    LeafNode(Some(<<"X", Dot, "Foo", Comma, "ExecuteSqlCommand">>), Some(<<"select">>),
             None, None, None, None)

\* MyLoopCommand : the recognized name is a fragment of the last segment
LoopFragment ==
    Cmd(Some(<<"My", "LoopCommand">>), None, None, None, Some(<<UpdateLeaf>>),
        None, None, None, None, None)

\* ConditionCommand.Foo : the recognized name is a segment before the last dot
ConditionNamespace ==
    Cmd(Some(<<"ConditionCommand", Dot, "Foo">>), None, Some(<<CallLeaf>>), None, None,
        None, None, None, None, None)

CommandSamples ==
    { LeafNode(Some(<<"X", Dot, "ExecuteSqlCommand", Comma, "Asm">>),
               Some(<<"a", NewLine, "b">>), None, None, None, None),
      UpdateLeaf,
      LeafNode(Some(<<"X", Dot, "SendEmailCommand">>), None, None, Some(<<"to">>), None, None),
      CallLeaf, UntypedLeaf, FooLeaf, DotEndLeaf, SqlAfterComma, LoopFragment,
      ConditionNamespace,
      CondNode(Some(Cond(None, Some(<<"a > 1">>), None, None, None)),
               Some(<<FooLeaf>>), Some(<<SqlLeaf>>)),
      LoopNode(Some(<<CondNode(NoCond, Some(<<CallLeaf>>), None), UntypedLeaf>>)) }

\* parseCommands(commands)
ParseCommandsCall ==
    /\ structured = None
    /\ structured' = Some(ParseCommands(commands))
    /\ UNCHANGED <<commands, lines, notCmd>>

InitCommands ==
    /\ commands \in StringsUpTo(CommandSamples, MaxCmds)
    /\ lines = None
    /\ structured = None
    /\ JsonUnused
    /\ TypeUnused
    /\ RunUnused
    /\ ReviewUnused
    /\ PairUnused

NextCommands ==
    \/ FlattenCall
    \/ ParseCommandsCall

SpecCommands == InitCommands /\ [][NextCommands]_vars

\* the names flattenCommandsToText and parseCommand look for
RecognizedNames ==
    {"ConditionCommand", "LoopCommand", "ExecuteSqlCommand", "UpdateTableDataCommand",
     "InsertTableDataCommand", "DeleteTableDataCommand", "SendEmailCommand",
     "CallServerCommandCommand"}

\* no recognized name occurs anywhere in the discriminator, or there is none
Unrecognized(cmd) == Chars(TypeOf(cmd)) \cap RecognizedNames = {}

\* the part of s before its first comma
BeforeComma(s) ==
    LET commas == {k \in 1..Len(s) : s[k] = Comma} IN
    IF commas = {} THEN s
    ELSE SubSeq(s, 1, (CHOOSE k \in commas : \A j \in commas : k <= j) - 1)

\* the part of s after its last dot
AfterLastDot(s) ==
    LET dots == {k \in 1..Len(s) : s[k] = Dot} IN
    IF dots = {} THEN s
    ELSE SubSeq(s, (CHOOSE k \in dots : \A j \in dots : k >= j) + 1, Len(s))

\* the kind derived from a discriminator: what follows the last dot of the
\* part before the first comma
DerivedKind(cmd) == AfterLastDot(BeforeComma(TypeOf(cmd)))

\* the label of a command: its derived kind, Unknown when that is empty
RawLabel(cmd) == IF DerivedKind(cmd) = <<>> THEN <<"Unknown">> ELSE DerivedKind(cmd)

----------------------------------------------------------------------------
(* SpecWorkflows: the run over archives of tables with and without a bound  *)
(* workflow, every table's workflow different from the others               *)

\* a workflow whose only state carries the name of entry k
WorkflowAt(k) ==
    WorkflowJson(Some(<<State(Some(Stem(k)), Some(TRUE), Some(TRUE))>>),
                 Some(<<Transition(Some(Stem(k)), Some(Stem(k)), None, None, None, None)>>))

TableBound(k, name) ==
    Entry(EntryName("Tables", None, Stem(k), ".json"), GoodText,
          TableJson(name, Absent, Arr(SampleRelations), Some(WorkflowAt(k))))

\* a table whose bound workflow holds neither States nor Transitions
TableBoundEmpty(k) ==
    Entry(EntryName("Tables", None, Stem(k), ".json"), GoodText,
          TableJson(Some(Stem(k)), Absent, Absent, Some(WorkflowJson(None, None))))

TablesAt(k) ==
    { TableBound(k, Some(<<"T">>)), TableBound(k, None), TableBoundEmpty(k),
      TableUnnamed(k), TableUnbalanced(k), TableReadme(k) }

RECURSIVE TableListings(_)
TableListings(n) ==
    IF n = 0 THEN {<<>>}
    ELSE {Append(l, e) : l \in TableListings(n - 1), e \in TablesAt(n)}

InitWorkflows ==
    /\ build = "analyzer.ts"
    /\ entries \in {Some(l) : l \in UNION {TableListings(n) : n \in 0..MaxEntries}}
    /\ pc = "tables"
    /\ pos = 0
    /\ tables = <<>>
    /\ pages = <<>>
    /\ workflows = <<>>
    /\ serverCommands = <<>>
    /\ log = <<>>
    /\ result = None
    /\ response = None
    /\ JsonUnused
    /\ TypeUnused
    /\ CmdUnused
    /\ ReviewUnused
    /\ PairUnused

NextWorkflows ==
    \/ AnalyzeTablesEntry
    \/ AnalyzeTablesReturn
    \/ AnalyzePagesNextLoop
    \/ AnalyzePagesReturn
    \/ ExtractWorkflowsCall
    \/ AnalyzeServerCommandsReturn
    \/ AnalyzeProjectReturn

SpecWorkflows == InitWorkflows /\ [][NextWorkflows]_vars

\* the positions of the tables of ts that have a workflow
BoundAt(ts) == {k \in 1..Len(ts) : ts[k].workflow # None}

\* the position in ts of the n-th table that has a workflow
NthBound(ts, n) ==
    CHOOSE k \in BoundAt(ts) : Cardinality({j \in BoundAt(ts) : j <= k}) = n

\* ws is the workflows of the tables of ts that have one, in table order
WorkflowsOfTables(ws, ts) ==
    /\ Len(ws) = Cardinality(BoundAt(ts))
    /\ \A n \in 1..Len(ws) : ws[n] = ts[NthBound(ts, n)].workflow[1]

\* C13: once extractWorkflows has run, the workflow list is the workflows of
\* the extracted tables that have one, one per such table and in table
\* order; the returned model holds this list next to these tables.
C13_WorkflowsOfTables ==
    /\ PhaseNo > 4 => WorkflowsOfTables(workflows, tables)
    /\ result # None => WorkflowsOfTables(result[1].workflows, result[1].tables)

\* three tables, the second without a workflow: two different workflows, the
\* first table's first
C13_Witness ==
    /\ result # None
    /\ Len(result[1].tables) = 3
    /\ BoundAt(result[1].tables) = {1, 3}
    /\ Len(result[1].workflows) = 2
    /\ result[1].workflows[1].tableName = <<"T">>
    /\ result[1].workflows[2].tableName = <<>>
    /\ result[1].workflows[1].states[1].name = Stem(1)
    /\ result[1].workflows[2].states[1].name = Stem(3)

----------------------------------------------------------------------------
(* the summary of the returned model *)

\* one pair per column of every table of ts
ColumnsOf(ts) == UNION {{<<k, j>> : j \in 1..Len(ts[k].columns)} : k \in 1..Len(ts)}

\* one pair per relation of every table of ts
RelationsOf(ts) == UNION {{<<k, j>> : j \in 1..Len(ts[k].relations)} : k \in 1..Len(ts)}

\* C14: the summary of every returned model counts the model's own
\* collections: the four lengths, the columns and the relations of all its
\* tables, and no more workflows than tables; entries that were skipped count
\* nowhere.
C14_SummaryAgrees ==
    result # None =>
        LET r == result[1] IN
        /\ r.summary.tableCount = Len(r.tables)
        /\ r.summary.pageCount = Len(r.pages)
        /\ r.summary.workflowCount = Len(r.workflows)
        /\ r.summary.serverCommandCount = Len(r.serverCommands)
        /\ r.summary.totalColumns = Cardinality(ColumnsOf(r.tables))
        /\ r.summary.totalRelations = Cardinality(RelationsOf(r.tables))
        /\ r.summary.workflowCount <= r.summary.tableCount
        /\ r.summary.tableCount + r.summary.pageCount + r.summary.serverCommandCount
             + Len(log) = Len(TableEntries) + Len(PageEntries) + Len(MasterPageEntries)
                          + Len(CmdEntries)

\* two tables extracted and one skipped: two columns, one relation, one
\* workflow
C14_Witness ==
    /\ result # None
    /\ Len(TableEntries) = 3
    /\ Len(log) = 1
    /\ result[1].summary = [tableCount |-> 2, pageCount |-> 0, workflowCount |-> 1,
                            serverCommandCount |-> 0, totalColumns |-> 2,
                            totalRelations |-> 1]

----------------------------------------------------------------------------
(* SpecAssignees: analyzeTables on one table whose workflow has one         *)
(* transition, its assignees drawn from every kind of discriminator         *)

MaxAssignees == 2

AssigneeSamples ==
    { Assignee(Some(<<"X", Dot, "UserAssignee", Comma, "Asm">>), Some(<<"u">>), None, None),
      Assignee(Some(<<"X", Dot, "UserAssignee">>), None, Some(<<"r">>), None),
      Assignee(Some(<<"X", Dot, "RoleAssignee">>), None, Some(<<"r">>), None),
      Assignee(Some(<<"X", Dot, "FieldAssignee">>), None, None, Some(<<"f">>)),
      Assignee(Some(<<"X", Dot, "CreatorAssignee">>), None, None, None),
      Assignee(Some(<<"X", Dot, "PreviousAssignee">>), Some(<<"u">>), None, None),
      Assignee(Some(<<"X", Dot, "GroupAssignee">>), Some(<<"u">>), Some(<<"r">>), Some(<<"f">>)),
      Assignee(Some(<<>>), Some(<<"u">>), None, None),
      Assignee(None, None, None, None) }

TableWithAssignees(as) ==
    Entry(EntryName("Tables", None, Stem(1), ".json"), GoodText,
          TableJson(Some(<<"T">>), Absent, Absent,
                    Some(WorkflowJson(None,
                            Some(<<Transition(Some(<<"a">>), Some(<<"b">>), None, None,
                                              as, None)>>)))))

InitAssignees ==
    /\ build = "analyzer.ts"
    /\ \E as \in {None} \cup {Some(l) : l \in StringsUpTo(AssigneeSamples, MaxAssignees)} :
        entries = Some(<<TableWithAssignees(as)>>)
    /\ pc = "tables"
    /\ pos = 0
    /\ tables = <<>>
    /\ pages = <<>>
    /\ workflows = <<>>
    /\ serverCommands = <<>>
    /\ log = <<>>
    /\ result = None
    /\ response = None
    /\ JsonUnused
    /\ TypeUnused
    /\ CmdUnused
    /\ ReviewUnused
    /\ PairUnused

NextAssignees ==
    \/ AnalyzeTablesEntry
    \/ AnalyzeTablesReturn

SpecAssignees == InitAssignees /\ [][NextAssignees]_vars

\* the five markers and the kind each stands for
AssigneeMarkers ==
    { <<"UserAssignee", "user">>, <<"RoleAssignee", "role">>, <<"FieldAssignee", "field">>,
      <<"CreatorAssignee", "creator">>, <<"PreviousAssignee", "previousAssignee">> }

\* the kinds whose marker occurs in the discriminator of assignee a
KindsMarked(a) == {m[2] : m \in {n \in AssigneeMarkers : n[1] \in Chars(OrElse(a.type, <<>>))}}

\* the Assignees of the transition of the table entry
SourceAssignees == ListOf(entries[1][1].data.BindingRelatedWorkflow[1].Transitions[1][1].Assignees)

\* C15: the table is extracted whatever its assignees are, with one assignee
\* record per source assignee at the same position; each record has one of
\* the five kinds, the marked kind when the discriminator holds a marker, and
\* kind user with the placeholder value when it holds none.
C15_AssigneesTotal ==
    pos > 0 =>
        /\ log = <<>>
        /\ Len(tables) = 1
        /\ LET out == tables[1].workflow[1].transitions[1].assignees IN
           /\ Len(out) = Len(SourceAssignees)
           /\ \A k \in 1..Len(out) :
               /\ out[k].type \in {"user", "role", "field", "creator", "previousAssignee"}
               /\ KindsMarked(SourceAssignees[k]) # {} => out[k].type \in KindsMarked(SourceAssignees[k])
               /\ KindsMarked(SourceAssignees[k]) = {} =>
                      out[k] = [type |-> "user", value |-> <<"unknown">>]

\* an assignee of no known kind before a role assignee
C15_Witness ==
    /\ pos > 0
    /\ Len(SourceAssignees) = 2
    /\ SourceAssignees[1].type = Some(<<"X", Dot, "GroupAssignee">>)
    /\ tables[1].workflow[1].transitions[1].assignees =
          << [type |-> "user", value |-> <<"unknown">>], [type |-> "role", value |-> <<"r">>] >>

----------------------------------------------------------------------------
(* checkWorkflowIssues (reviewer.ts 345-444) on one workflow of the model  *)

MaxStates == 3
MaxTransitions == 2

\* if (x) on an optional boolean
Truthy(x) == x = Some(TRUE)

Issue(title, about) == [title |-> title, about |-> about]

\* the elements of seq that satisfy Test, in order, each mapped by Map
Collect(seq, Test(_), Map(_)) ==
    LET kept == SelectSeq(seq, Test) IN [k \in 1..Len(kept) |-> Map(kept[k])]

\* states without outgoing transition that are not final (reviewer.ts 349-364)
DeadEndIssues(w) ==
    Collect(w.states,
            LAMBDA s : /\ \A k \in 1..Len(w.transitions) : w.transitions[k].fromState # s.name
                       /\ \A k \in 1..Len(w.states) :
                            ~(Truthy(w.states[k].isFinal) /\ w.states[k].name = s.name)
                       /\ ~Truthy(s.isFinal),
            LAMBDA s : Issue("dead end state", s.name))

\* transitions without assignee (reviewer.ts 366-378)
NoAssigneeIssues(w) ==
    Collect(w.transitions, LAMBDA t : Len(t.assignees) = 0,
            LAMBDA t : Issue("no assignee", t.fromState))

\* source states of more than one transition without condition, in the order
\* of their first such transition (reviewer.ts 380-403)
DuplicateIssues(w) ==
    LET uncond == SelectSeq(w.transitions, LAMBDA t : Len(t.conditions) = 0)
        first == SelectSeq([k \in 1..Len(uncond) |-> k],
                           LAMBDA k : \A j \in 1..(k - 1) : uncond[j].fromState # uncond[k].fromState)
        many == SelectSeq(first,
                          LAMBDA k : Cardinality({j \in 1..Len(uncond) :
                                                     uncond[j].fromState = uncond[k].fromState}) > 1)
    IN  [k \in 1..Len(many) |-> Issue("several unconditional transitions",
                                      uncond[many[k]].fromState)]

\* the loop over the transitions that follows both directions
SuccessorsEitherDirection(w, current, reached) ==
    Collect(w.transitions,
            LAMBDA t : \/ t.fromState = current /\ t.toState \notin reached
                       \/ t.toState = current /\ t.fromState \notin reached,
            LAMBDA t : IF t.fromState = current THEN t.toState ELSE t.fromState)

\* the target states pushed for the state taken from the queue
\* (reviewer.ts 427-431)
Successors(w, current, reached) ==
    Collect(w.transitions,
            LAMBDA t : t.fromState = current /\ t.toState \notin reached,
            LAMBDA t : t.toState)

\* the loop over the workflow up to the initial states (reviewer.ts 348-424)
CheckWorkflowIssuesOpen ==
    /\ reviewPc = "start"
    /\ reachableStates' = {}
    /\ LET initialStates == SelectSeq(wf.states, LAMBDA s : Truthy(s.isInitial))
           found == DeadEndIssues(wf) \o NoAssigneeIssues(wf) \o DuplicateIssues(wf)
       IN  IF Len(initialStates) = 0
           THEN /\ issues' = issues \o found \o <<Issue("no initial state", <<>>)>>
                /\ queue' = <<>>
                /\ reviewPc' = "done"
           ELSE /\ issues' = issues \o found
                /\ queue' = [k \in 1..Len(initialStates) |-> initialStates[k].name]
                /\ reviewPc' = "reach"
    /\ UNCHANGED <<wf, notReview>>

\* a search that neither skips a name it has reached nor leaves out the
\* targets it has reached
ReachStepRevisiting ==
    /\ reviewPc = "reach"
    /\ queue # <<>>
    /\ \E current \in {Head(queue)} :
        /\ reachableStates' = reachableStates \cup {current}
        /\ queue' = Tail(queue) \o Collect(wf.transitions,
                                           LAMBDA t : t.fromState = current,
                                           LAMBDA t : t.toState)
    /\ UNCHANGED <<wf, reviewPc, issues, notReview>>

\* one iteration of while (queue.length > 0) (reviewer.ts 422-432)
ReachStep ==
    /\ reviewPc = "reach"
    /\ queue # <<>>
    /\ \E current \in {Head(queue)} :
        IF current \in reachableStates
        THEN /\ queue' = Tail(queue)
             /\ reachableStates' = reachableStates
        ELSE /\ reachableStates' = reachableStates \cup {current}
             /\ queue' = Tail(queue) \o Successors(wf, current, reachableStates \cup {current})
    /\ UNCHANGED <<wf, reviewPc, issues, notReview>>

\* the loop over the states after the queue ran empty (reviewer.ts 434-445)
ReportOrphans ==
    /\ reviewPc = "reach"
    /\ queue = <<>>
    /\ issues' = issues \o Collect(wf.states, LAMBDA s : s.name \notin reachableStates,
                                   LAMBDA s : Issue("orphan state", s.name))
    /\ reviewPc' = "done"
    /\ UNCHANGED <<wf, queue, reachableStates, notReview>>

StateName(k) == <<"s", ToString(k)>>

\* a name no state of the workflow has
Ghost == <<"ghost">>

\* the states s1..sn, the last one final, each initial or not
StateLists ==
    UNION {{[k \in 1..n |-> [name |-> StateName(k), isInitial |-> init[k],
                             isFinal |-> IF k = n THEN Some(TRUE) ELSE None]] :
                init \in [1..n -> {Some(TRUE), None}]} : n \in 0..MaxStates}

Link(from, to) ==
    [fromState |-> from, toState |-> to, action |-> <<"go">>, conditions |-> <<>>,
     assignees |-> <<>>, commands |-> <<>>]

LinkNames == {StateName(k) : k \in 1..MaxStates} \cup {Ghost}

\* every transition between two different names, and s1 -> s1
Links ==
    {l \in {Link(from, to) : from \in LinkNames, to \in LinkNames} : l.fromState # l.toState}
        \cup {Link(StateName(1), StateName(1))}

InitReview ==
    /\ \E states \in StateLists, transitions \in StringsUpTo(Links, MaxTransitions) :
        wf = [tableName |-> <<"T">>, states |-> states, transitions |-> transitions]
    /\ reviewPc = "start"
    /\ queue = <<>>
    /\ reachableStates = {}
    /\ issues = <<>>
    /\ JsonUnused
    /\ TypeUnused
    /\ CmdUnused
    /\ RunUnused
    /\ PairUnused

NextReview ==
    \/ CheckWorkflowIssuesOpen
    \/ ReachStep
    \/ ReportOrphans

SpecReview == InitReview /\ [][NextReview]_vars

\* the names reached from the names of S by any number of transitions
RECURSIVE ReachedFrom(_, _)
ReachedFrom(w, S) ==
    LET more == S \cup {w.transitions[k].toState :
                           k \in {j \in 1..Len(w.transitions) : w.transitions[j].fromState \in S}}
    IN  IF more = S THEN S ELSE ReachedFrom(w, more)

InitialNames(w) == {w.states[k].name : k \in {j \in 1..Len(w.states) : Truthy(w.states[j].isInitial)}}

\* the states the finished review reports as orphans, in order
Orphans == SelectSeq(issues, LAMBDA x : x.title = "orphan state")

\* C16: when the review of a workflow with an initial state is done, its
\* orphan reports are, in state order, exactly the states that no chain of
\* transitions fromState -> toState reaches from an initial state; a workflow
\* without initial state gets no orphan report.
C16_OrphansAreUnreachable ==
    reviewPc = "done" =>
        LET unreachable == SelectSeq(wf.states,
                                     LAMBDA s : s.name \notin ReachedFrom(wf, InitialNames(wf)))
        IN  IF InitialNames(wf) = {}
            THEN Orphans = <<>>
            ELSE Orphans = [k \in 1..Len(unreachable) |-> Issue("orphan state", unreachable[k].name)]

\* s1 is initial and leads to s2, no transition touches s3: only s3 is
\* reported
C16_Witness ==
    /\ reviewPc = "done"
    /\ Len(wf.states) = 3
    /\ InitialNames(wf) = {StateName(1)}
    /\ wf.transitions = <<Link(StateName(1), StateName(2))>>
    /\ Orphans = <<Issue("orphan state", StateName(3))>>

\* s1 (initial) -> s2 -> s3 (final): nothing is reported as orphan
C16_ChainWitness ==
    /\ reviewPc = "done"
    /\ Len(wf.states) = 3
    /\ InitialNames(wf) = {StateName(1)}
    /\ wf.transitions = <<Link(StateName(1), StateName(2)), Link(StateName(2), StateName(3))>>
    /\ Orphans = <<>>

----------------------------------------------------------------------------
(* structured and flattened output of the same command list (SpecCommands) *)

\* the number of nodes of a list of CommandInfo trees
RECURSIVE NodeCount(_)
NodeCount(infos) ==
    IF infos = <<>> THEN 0
    ELSE 1 + NodeCount(ListOf(Head(infos).subCommands)) + NodeCount(Tail(infos))

\* C17: every Loop node of the list is parsed to a Command whose children are
\* the parsed commands of its body, and the structured tree has one node per
\* command node that the flattened output has lines for.
C17_LoopChildrenStructured ==
    structured # None =>
        /\ \A k \in 1..Len(commands) :
            IsLoop(commands[k]) =>
                structured[1][k].subCommands = Some(ParseCommands(ListOf(commands[k].Commands)))
        /\ NodeCount(structured[1]) = Cardinality(CmdOccurrences(commands, 0, 0))

\* every Condition node of the list is parsed to a Command whose children
\* are the parsed commands of its true branch followed by those of its false
\* branch
C17_ConditionChildrenStructured ==
    structured # None =>
        \A k \in 1..Len(commands) :
            IsCondition(commands[k]) =>
                structured[1][k].subCommands =
                    Some(ParseCommands(ListOf(commands[k].TrueCommands))
                         \o ParseCommands(ListOf(commands[k].FalseCommands)))

\* a Loop node with a body of two commands, parsed without children
C17_LoopWithoutChildren ==
    /\ commands = <<LoopNode(Some(<<CondNode(NoCond, Some(<<CallLeaf>>), None), UntypedLeaf>>))>>
    /\ structured # None
    /\ structured[1][1].type = <<"LoopCommand">>
    /\ structured[1][1].subCommands = None
    /\ lines # None
    /\ Len(lines[1]) = 6

\* the form a command is rendered in: "label" for the bare label line, else
\* the keyword its first line starts with
LineForm(cmd) ==
    LET first == FlattenCommandsToText(<<cmd>>, 0)[1] IN
    IF first = RawLabel(cmd) THEN "label" ELSE first[1]

\* the derived kind of cmd is one of the recognized names
KindRecognized(cmd) == \E name \in RecognizedNames : DerivedKind(cmd) = <<name>>

\* C18: the derived kind alone selects rendering and structure: a command
\* whose derived kind is no recognized name is flattened to its bare label
\* line and parsed without sub-commands, and two commands of the same derived
\* kind are rendered in the same form.
C18_KindSelectsForm ==
    /\ lines # None =>
        /\ \A k \in 1..Len(commands) :
            ~KindRecognized(commands[k]) =>
                FlattenCommandsToText(<<commands[k]>>, 0) = <<RawLabel(commands[k])>>
        /\ \A j, k \in 1..Len(commands) :
            DerivedKind(commands[j]) = DerivedKind(commands[k]) =>
                LineForm(commands[j]) = LineForm(commands[k])
    /\ structured # None =>
        \A k \in 1..Len(commands) :
            ~KindRecognized(commands[k]) => structured[1][k].subCommands = None

\* X.Foo and X.Foo, ExecuteSqlCommand have the derived kind Foo; the first is
\* rendered as the label Foo, the second as an SQL block
C18_SameKindTwoForms ==
    /\ commands = <<FooLeaf, SqlAfterComma>>
    /\ lines = Some(<< <<"Foo">>, <<"EXECUTE SQL:">>, <<"  ", "select">> >>)
    /\ structured # None
    /\ structured[1][2].type = <<"Foo">>
    /\ structured[1][2].details = Details(Some(<<"select">>), None, None, None)

\* ConditionCommand.Foo has the derived kind Foo and is parsed with
\* sub-commands and rendered as an IF block
C18_NamespaceSelectsCondition ==
    /\ commands = <<ConditionNamespace>>
    /\ structured # None
    /\ structured[1][1].type = <<"Foo">>
    /\ structured[1][1].subCommands = Some(ParseCommands(<<CallLeaf>>))
    /\ lines # None
    /\ lines[1][1] = <<"IF ", "(no condition)", " THEN">>

----------------------------------------------------------------------------
(* the type of server-command parameters (SpecServerCommands) *)

\* the last dotted segment of the part of t before the first comma, Text
\* when t is absent or that segment is empty
LastSegmentOrText(t) ==
    IF t = None THEN Text
    ELSE IF AfterLastDot(BeforeComma(t[1])) = <<>> THEN Text
    ELSE AfterLastDot(BeforeComma(t[1]))

\* the type string of a source parameter: its Type field, absent in the
\* trigger shape
SourceType(p) == IF "Type" \in DOMAIN p THEN p.Type ELSE None

\* the source parameters the parameters of an extracted server command were
\* made from
SourceParameters(data) ==
    LET current == IF ListOf(data.Triggers) = <<>> THEN <<>>
                   ELSE ListOf(data.Triggers[1][1].Parameters)
    IN  IF build = "analyzer.ts" /\ current # <<>> THEN current ELSE ListOf(data.Parameters)

\* C19 as stated: the type of every extracted parameter, of either shape, is
\* the last dotted segment of its source type string, Text when absent.
C19_TypeByDottedSegment ==
    \A k \in 1..Len(serverCommands) :
        LET source == SourceParameters(CmdEntries[k].data) IN
        /\ Len(serverCommands[k].parameters) = Len(source)
        /\ \A j \in 1..Len(source) :
            serverCommands[k].parameters[j].type = LastSegmentOrText(SourceType(source[j]))

\* the type names of the number types of a validation info
NumberTypeNames == (4 :> DateTime) @@ (1 :> Integer) @@ (2 :> Decimal)

TypeOfNumberType(p) ==
    IF p.DataValidationInfo = None THEN Text
    ELSE IF p.DataValidationInfo[1].NumberType = None THEN Text
    ELSE IF p.DataValidationInfo[1].NumberType[1] \in DOMAIN NumberTypeNames
         THEN NumberTypeNames[p.DataValidationInfo[1].NumberType[1]]
    ELSE Text

\* C19 amended: a parameter of the legacy shape has the last dotted segment
\* of its Type before the first comma, Text when Type is absent or the
\* segment empty; a parameter of the trigger shape has the type named by its
\* DataValidationInfo.NumberType: DateTime for 4, Integer for 1, Decimal for
\* 2, Text otherwise.
C19_TypeByShape ==
    \A k \in 1..Len(serverCommands) :
        LET source == SourceParameters(CmdEntries[k].data) IN
        /\ Len(serverCommands[k].parameters) = Len(source)
        /\ \A j \in 1..Len(source) :
            serverCommands[k].parameters[j].type =
                IF "Type" \in DOMAIN source[j]
                THEN LastSegmentOrText(source[j].Type)
                ELSE TypeOfNumberType(source[j])

\* two trigger parameters, one with number type 4 and one without validation
\* info: DateTime and Text
C19_Witness ==
    /\ build = "analyzer.ts"
    /\ Len(serverCommands) = 1
    /\ SourceParameters(CmdEntries[1].data) =
          <<TriggerParam(Some(<<"r">>), Some(ValidationInfo(Some(4)))),
            TriggerParam(Some(<<"p">>), None)>>
    /\ serverCommands[1].parameters[1].type = DateTime
    /\ serverCommands[1].parameters[2].type = Text

\* two legacy parameters: Number from a qualified name, Text for a name
\* ending in a dot
C19_LegacyWitness ==
    /\ Len(serverCommands) = 1
    /\ SourceParameters(CmdEntries[1].data) =
          <<LegacyParam(Some(<<"q">>), Some(QualifiedNumber), Some(TRUE),
                        Some(Scalar("number", <<"1">>))),
            LegacyParam(Some(<<"p">>), Some(<<"a", Dot>>), Some(FALSE),
                        Some(Scalar("string", <<>>)))>>
    /\ serverCommands[1].parameters[1].type = Number
    /\ serverCommands[1].parameters[2].type = Text

----------------------------------------------------------------------------
(* SpecPages: analyzePages on one page or master page whose cells carry     *)
(* CellType commands, legacy commands, or both                              *)

MaxCells == 2

\* the CellType object of a cell
CellTypeNode(type, text, caption, commandList, items) ==
    [type |-> type, Text |-> text, Content |-> caption, CommandList |-> commandList,
     Items |-> items]

MenuItem(text, commandList, subItems) ==
    [Text |-> text, CommandList |-> commandList, SubItems |-> subItems]

ButtonType == Some(<<"X", Dot, "ButtonCellType", Comma, "Asm">>)
ImageType == Some(<<"X", Dot, "ImageCellType", Comma, "Asm">>)
MenuType == Some(<<"X", Dot, "ForguncyMenuCellType", Comma, "Asm">>)

\* the command list of every CellType of the samples, and the legacy one
TypeCommands == <<SqlLeaf>>
LegacyCommands == <<CallLeaf>>

CellSamples ==
    { \* a button cell type with commands, and the legacy fields
      Cell(None, Some(CellTypeNode(ButtonType, Some(<<"save">>), None, Some(TypeCommands), None)),
           Some(LegacyCommands), Some(<<"old">>)),
      \* another cell type with commands, and legacy commands without text
      Cell(None, Some(CellTypeNode(ImageType, None, None, Some(TypeCommands), None)),
           Some(LegacyCommands), None),
      \* a button cell type alone
      Cell(Some(<<"=A1">>),
           Some(CellTypeNode(ButtonType, None, Some(<<"go">>), Some(TypeCommands), None)),
           None, None),
      \* the legacy fields alone
      Cell(None, None, Some(LegacyCommands), Some(<<"old">>)),
      Cell(None, None, Some(LegacyCommands), None),
      \* a cell type without commands, and the legacy fields
      Cell(None, Some(CellTypeNode(ButtonType, None, None, Some(<<>>), None)),
           Some(LegacyCommands), Some(<<"old">>)),
      \* a menu with one item and one sub item, and the legacy fields
      Cell(None,
           Some(CellTypeNode(MenuType, None, None, None,
                             Some(<<MenuItem(Some(<<"m">>), Some(TypeCommands),
                                             Some(<<MenuItem(None, Some(TypeCommands), None)>>))>>))),
           Some(LegacyCommands), None),
      \* a formula and nothing else
      Cell(Some(<<"=B2">>), None, None, None),
      \* legacy Commands that is an empty list, without and with a text
      Cell(None, None, Some(<<>>), None),
      Cell(Some(<<>>), None, Some(<<>>), Some(<<"old">>)) }

CellAddress(k) == <<ToString(k), ",", "0">>

PageWithCells(dir, cells) ==
    Entry(EntryName(dir, None, Stem(1), ".json"), GoodText,
          PageJson(Some(<<"P">>),
                   Some([k \in 1..Len(cells) |-> AttachInfo(CellAddress(k), Some(cells[k]))])))

InitPages ==
    /\ build = "analyzer.ts"
    /\ \E dir \in {"Pages", "MasterPages"}, cells \in StringsUpTo(CellSamples, MaxCells) :
        entries = Some(<<PageWithCells(dir, cells)>>)
    /\ pc = "pages"
    /\ pos = 0
    /\ tables = <<>>
    /\ pages = <<>>
    /\ workflows = <<>>
    /\ serverCommands = <<>>
    /\ log = <<>>
    /\ result = None
    /\ response = None
    /\ JsonUnused
    /\ TypeUnused
    /\ CmdUnused
    /\ ReviewUnused
    /\ PairUnused

NextPages ==
    \/ AnalyzePagesEntry
    \/ AnalyzePagesNextLoop
    \/ AnalyzeMasterPagesEntry
    \/ AnalyzePagesReturn

SpecPages == InitPages /\ [][NextPages]_vars

\* the cells of the page entry, with their addresses
SourceCells == entries[1][1].data.AttachInfos[1]

\* the cell has a CellType object with a command list that is not empty
HasTypeCommands(cell) ==
    cell.CellType # None /\ ListOf(cell.CellType[1].CommandList) # <<>>

\* the button and cell-command records of page p for the cell at address
RecordsAt(p, address) ==
    SelectSeq(p.buttons, LAMBDA r : r.cell = address)
        \o SelectSeq(p.cellCommands, LAMBDA r : r.cell = address)

\* C20: for a cell with a CellType command list and legacy Commands, the
\* extracted page holds exactly one button or cell-command record for the
\* cell, the one made from the CellType's command list, and none made from
\* the legacy Commands.
C20_CellTypeTakesPriority ==
    \A p \in 1..Len(pages) :
        \A k \in 1..Len(SourceCells) :
            LET cell == SourceCells[k].cell[1]
                records == RecordsAt(pages[p], SourceCells[k].cellAddress)
            IN  (HasTypeCommands(cell) /\ cell.Commands # None) =>
                    /\ Len(records) = 1
                    /\ records[1].commands = ParseCommands(cell.CellType[1].CommandList[1])

\* what the code does for such a cell: the record of the CellType's command
\* list is followed by a record of the legacy Commands, a button when
\* ButtonText is set and a cell command otherwise
C20_BothExtracted ==
    \A p \in 1..Len(pages) :
        \A k \in 1..Len(SourceCells) :
            LET cell == SourceCells[k].cell[1]
                records == RecordsAt(pages[p], SourceCells[k].cellAddress)
            IN  (HasTypeCommands(cell) /\ cell.Commands # None) =>
                    /\ Len(records) = 2
                    /\ {records[1].commands, records[2].commands} =
                          {ParseCommands(cell.CellType[1].CommandList[1]),
                           ParseCommands(cell.Commands[1])}

\* the button cell with both: two buttons at the same address, save and old
C20_TwoButtonsForOneCell ==
    /\ Len(pages) = 1
    /\ Len(SourceCells) = 1
    /\ pages[1].buttons =
          << [name |-> <<"save">>, cell |-> CellAddress(1), commands |-> ParseCommands(TypeCommands)],
             [name |-> <<"old">>, cell |-> CellAddress(1), commands |-> ParseCommands(LegacyCommands)] >>

----------------------------------------------------------------------------
(* SpecPageKeys: analyzePages of both copies of the analyzer on one page    *)
(* that keeps its cells under the key AttachInfos or under the key Cells    *)

\* the cells of a page as the list of [cellAddress, cell] pairs
Attached(cells) == [k \in 1..Len(cells) |-> AttachInfo(CellAddress(k), Some(cells[k]))]

PageKeyed(dir, key, cells) ==
    Entry(EntryName(dir, None, Stem(1), ".json"), GoodText,
          IF key = "Cells" THEN PageJsonCells(Some(<<"P">>), Some(Attached(cells)))
          ELSE PageJson(Some(<<"P">>), Some(Attached(cells))))

InitPageKeys ==
    /\ build \in {"analyzer.ts", "part_001"}
    /\ \E dir \in {"Pages", "MasterPages"}, key \in {"AttachInfos", "Cells"},
          cells \in StringsUpTo(CellSamples, MaxCells) :
        entries = Some(<<PageKeyed(dir, key, cells)>>)
    /\ pc = "pages"
    /\ pos = 0
    /\ tables = <<>>
    /\ pages = <<>>
    /\ workflows = <<>>
    /\ serverCommands = <<>>
    /\ log = <<>>
    /\ result = None
    /\ response = None
    /\ JsonUnused
    /\ TypeUnused
    /\ CmdUnused
    /\ ReviewUnused
    /\ PairUnused

NextPageKeys ==
    \/ AnalyzePagesEntry
    \/ AnalyzePagesNextLoop
    \/ AnalyzeMasterPagesEntry
    \/ AnalyzePagesReturn

SpecPageKeys == InitPageKeys /\ [][NextPageKeys]_vars

\* the buttons, formulas and cellCommands of a page record
ElementsOf(p) == [buttons |-> p.buttons, formulas |-> p.formulas, cellCommands |-> p.cellCommands]

\* the cells of the page entry, under whichever key they are kept
KeyedCells == ListOf(entries[1][1].data.AttachInfos) \o ListOf(entries[1][1].data.Cells)

\* the page entry with its cells moved to the key AttachInfos
UnderCurrentKey ==
    Entry(entries[1][1].entryName, entries[1][1].text, PageJson(Some(<<"P">>), Some(KeyedCells)))

\* C21: the elements of an extracted page are those the same extractor
\* yields for the same cells kept under the current key AttachInfos, under
\* whichever of the two keys the page keeps them.
C21_BothKeysRead ==
    \A k \in 1..Len(pages) :
        ElementsOf(pages[k]) = ElementsOf(PageOfCopy(UnderCurrentKey, pages[k].type, build).rec[1])

\* analyzer.ts on a page whose formula and legacy button are kept under
\* Cells: no element is extracted
C21_LegacyKeyIgnored ==
    /\ build = "analyzer.ts"
    /\ Len(pages) = 1
    /\ entries[1][1].data.Cells =
          Some(Attached(<<Cell(Some(<<"=B2">>), None, None, None),
                          Cell(None, None, Some(LegacyCommands), Some(<<"old">>))>>))
    /\ ElementsOf(pages[1]) = [buttons |-> <<>>, formulas |-> <<>>, cellCommands |-> <<>>]

\* part_001 on the same cells kept under AttachInfos: no element is extracted
C21_CurrentKeyIgnoredByPart001 ==
    /\ build = "part_001"
    /\ Len(pages) = 1
    /\ entries[1][1].data.AttachInfos =
          Some(Attached(<<Cell(Some(<<"=B2">>), None, None, None),
                          Cell(None, None, Some(LegacyCommands), Some(<<"old">>))>>))
    /\ ElementsOf(pages[1]) = [buttons |-> <<>>, formulas |-> <<>>, cellCommands |-> <<>>]

\* analyzer.ts alone, on pages that keep their cells under AttachInfos
C21_CurrentKeyRead ==
    (build = "analyzer.ts" /\ entries[1][1].data.Cells = None) =>
        \A k \in 1..Len(pages) :
            ElementsOf(pages[k]) = ExtractPageElements(KeyedCells)

----------------------------------------------------------------------------
(* which cells of a page yield records (SpecPages) *)

\* some item of a menu, at any depth, has a command list that is not empty
RECURSIVE MenuHasCommands(_)
MenuHasCommands(items) ==
    \E k \in 1..Len(items) :
        \/ ListOf(items[k].CommandList) # <<>>
        \/ MenuHasCommands(ListOf(items[k].SubItems))

\* the cell has a command list that is not empty: of its CellType, of an
\* item of its menu, or its legacy Commands
HasCommandList(cell) ==
    \/ ListOf(cell.Commands) # <<>>
    \/ /\ cell.CellType # None
       /\ \/ ListOf(cell.CellType[1].CommandList) # <<>>
          \/ MenuHasCommands(ListOf(cell.CellType[1].Items))

\* C22: a cell has a formula record only if its formula is not empty, and a
\* button or cell-command record only if it has a command list that is not
\* empty; every such record holds at least one command.
C22_SparseRecords ==
    \A p \in 1..Len(pages) :
        \A k \in 1..Len(SourceCells) :
            LET cell == SourceCells[k].cell[1]
                records == RecordsAt(pages[p], SourceCells[k].cellAddress)
            IN  /\ (\E f \in 1..Len(pages[p].formulas) :
                        pages[p].formulas[f].cell = SourceCells[k].cellAddress)
                   => OrElse(cell.Formula, <<>>) # <<>>
                /\ records # <<>> => HasCommandList(cell)
                /\ \A r \in 1..Len(records) : records[r].commands # <<>>

\* a cell whose only content is an empty legacy Commands list yields a
\* cell-command record without commands
C22_RecordOfEmptyCommands ==
    /\ Len(pages) = 1
    /\ SourceCells = Attached(<<Cell(None, None, Some(<<>>), None)>>)
    /\ pages[1].cellCommands = <<[cell |-> CellAddress(1), event |-> "Click", commands |-> <<>>]>>

\* the formula records alone are sparse, and so are the records made from a
\* CellType or a menu
C22_SparseButLegacy ==
    \A p \in 1..Len(pages) :
        \A k \in 1..Len(SourceCells) :
            LET cell == SourceCells[k].cell[1]
                records == RecordsAt(pages[p], SourceCells[k].cellAddress)
            IN  /\ (\E f \in 1..Len(pages[p].formulas) :
                        pages[p].formulas[f].cell = SourceCells[k].cellAddress)
                   <=> OrElse(cell.Formula, <<>>) # <<>>
                /\ cell.Commands = None =>
                    /\ records # <<>> => HasCommandList(cell)
                    /\ \A r \in 1..Len(records) : records[r].commands # <<>>

----------------------------------------------------------------------------
(* SpecStates: analyzeTables on one table whose workflow has states with    *)
(* every combination of present and absent flags                            *)

MaxSourceStates == 2

Flags == {None, Some(TRUE), Some(FALSE)}

StateSamples == {State(Some(<<"s">>), initial, final) : initial \in Flags, final \in Flags}

TableWithStates(states) ==
    Entry(EntryName("Tables", None, Stem(1), ".json"), GoodText,
          TableJson(Some(<<"T">>), Absent, Absent, Some(WorkflowJson(states, None))))

InitStates ==
    /\ build = "analyzer.ts"
    /\ \E states \in {None} \cup {Some(l) : l \in StringsUpTo(StateSamples, MaxSourceStates)} :
        entries = Some(<<TableWithStates(states)>>)
    /\ pc = "tables"
    /\ pos = 0
    /\ tables = <<>>
    /\ pages = <<>>
    /\ workflows = <<>>
    /\ serverCommands = <<>>
    /\ log = <<>>
    /\ result = None
    /\ response = None
    /\ JsonUnused
    /\ TypeUnused
    /\ CmdUnused
    /\ ReviewUnused
    /\ PairUnused

NextStates ==
    \/ AnalyzeTablesEntry
    \/ AnalyzeTablesReturn

SpecStates == InitStates /\ [][NextStates]_vars

\* the States of the workflow of the table entry
SourceStates == ListOf(entries[1][1].data.BindingRelatedWorkflow[1].States)

\* an optional flag read as a boolean that is false when absent
DefaultFalse(flag) == IF flag = None THEN Some(FALSE) ELSE flag

\* C23 as stated: every state of the reconstructed workflow has boolean
\* isInitial and isFinal, false when the source flag is absent.
C23_FlagsDefaultFalse ==
    \A t \in 1..Len(tables) :
        LET states == tables[t].workflow[1].states IN
        /\ Len(states) = Len(SourceStates)
        /\ \A k \in 1..Len(states) :
            /\ states[k].isInitial = DefaultFalse(SourceStates[k].IsInitialState)
            /\ states[k].isFinal = DefaultFalse(SourceStates[k].IsFinalState)

\* C23 amended: every state of the reconstructed workflow carries the source
\* flags unchanged: isInitial and isFinal are the boolean of the source when
\* the flag is present and are absent when the source flag is absent.
C23_FlagsCopied ==
    \A t \in 1..Len(tables) :
        LET states == tables[t].workflow[1].states IN
        /\ Len(states) = Len(SourceStates)
        /\ \A k \in 1..Len(states) :
            /\ states[k].isInitial = SourceStates[k].IsInitialState
            /\ states[k].isFinal = SourceStates[k].IsFinalState
            /\ SourceStates[k].IsInitialState = None => states[k].isInitial # Some(FALSE)
            /\ SourceStates[k].IsFinalState = None => states[k].isFinal # Some(FALSE)

\* a state without flags before a state with both: the first has neither
\* isInitial nor isFinal
C23_Witness ==
    /\ Len(tables) = 1
    /\ SourceStates = <<State(Some(<<"s">>), None, None), State(Some(<<"s">>), Some(TRUE), Some(FALSE))>>
    /\ tables[1].workflow[1].states =
          << [name |-> <<"s">>, isInitial |-> None, isFinal |-> None],
             [name |-> <<"s">>, isInitial |-> Some(TRUE), isFinal |-> Some(FALSE)] >>

----------------------------------------------------------------------------
(* SpecPair: two analyzeProject calls in flight.  A call runs from one      *)
(* await to the next without interruption: analyzeTables, analyzePages and  *)
(* analyzeServerCommands hold no await themselves (analyzer.ts 48, 51, 57). *)

MaxRunEntries == 2

\* the records and the console.error events of a loop over a batch, given
\* the attempts of its iterations
LoopOutcome(batch, attempts, what) ==
    [records |-> Flatten([k \in 1..Len(batch) |->
                    IF attempts[k].ok THEN <<attempts[k].rec[1]>> ELSE <<>>]),
     errors |-> Flatten([k \in 1..Len(batch) |->
                    IF attempts[k].ok THEN <<>> ELSE <<LogEvent(what, batch[k].entryName)>>])]

\* analyzeTables(zip, entries) as a whole (analyzer.ts 134-186)
AnalyzeTablesOf(es) ==
    LET batch == SelectSeq(es, LAMBDA e : IsEntryOf(e, "Tables")) IN
    LoopOutcome(batch, [k \in 1..Len(batch) |-> TableOf(batch[k])], "table")

\* analyzePages(zip, entries) as a whole: both loops (analyzer.ts 379-428)
AnalyzePagesOf(es) ==
    LET first == SelectSeq(es, LAMBDA e : IsEntryOf(e, "Pages"))
        second == SelectSeq(es, LAMBDA e : IsEntryOf(e, "MasterPages"))
        one == LoopOutcome(first, [k \in 1..Len(first) |-> PageOf(first[k], "page")], "page")
        two == LoopOutcome(second, [k \in 1..Len(second) |-> PageOf(second[k], "masterPage")],
                           "master page")
    IN  [records |-> one.records \o two.records, errors |-> one.errors \o two.errors]

\* analyzeServerCommands(zip, entries) as a whole (analyzer.ts 558-621)
AnalyzeServerCommandsOf(es) ==
    LET batch == SelectSeq(es, LAMBDA e : IsEntryOf(e, "ServerCommands")) IN
    LoopOutcome(batch, [k \in 1..Len(batch) |-> ServerCommandOf(batch[k], "analyzer.ts")],
                "server command")

\* the summary and the returned object (analyzer.ts 60-77)
ModelOf(ts, ps, ws, cs) ==
    [tables |-> ts, pages |-> ps, workflows |-> ws, serverCommands |-> cs,
     summary |->
        [tableCount |-> Len(ts),
         pageCount |-> Len(ps),
         workflowCount |-> Len(ws),
         serverCommandCount |-> Len(cs),
         totalColumns |-> Sum([k \in 1..Len(ts) |-> Len(ts[k].columns)]),
         totalRelations |-> Sum([k \in 1..Len(ts) |-> Len(ts[k].relations)])]]

\* the locals of a call that has not started
NewRun(archive) ==
    [archive |-> archive, pc |-> "start", tables |-> <<>>, pages |-> <<>>, workflows |-> <<>>,
     serverCommands |-> <<>>, result |-> None]

\* the first step of a call in which the tables array is one array of the
\* module, shared by the calls
PairTablesShared(r) ==
    /\ runs[r].pc = "start"
    /\ IF runs[r].archive = None
       THEN /\ runs' = [runs EXCEPT ![r].pc = "thrown"]
            /\ console' = console
       ELSE \E t \in {AnalyzeTablesOf(runs[r].archive[1])} :
            /\ runs' = [runs EXCEPT ![r].pc = "tables",
                                    ![r].tables = runs[3 - r].tables \o t.records]
            /\ console' = console \o t.errors
    /\ UNCHANGED notPair

\* from the call to the first await: the archive is opened and analyzeTables
\* runs (analyzer.ts 39-48)
PairTables(r) ==
    /\ runs[r].pc = "start"
    /\ IF runs[r].archive = None
       THEN /\ runs' = [runs EXCEPT ![r].pc = "thrown"]
            /\ console' = console
       ELSE \E t \in {AnalyzeTablesOf(runs[r].archive[1])} :
            /\ runs' = [runs EXCEPT ![r].pc = "tables", ![r].tables = t.records]
            /\ console' = console \o t.errors
    /\ UNCHANGED notPair

\* to the second await: analyzePages runs (analyzer.ts 50-51)
PairPages(r) ==
    /\ runs[r].pc = "tables"
    /\ \E p \in {AnalyzePagesOf(runs[r].archive[1])} :
        /\ runs' = [runs EXCEPT ![r].pc = "pages", ![r].pages = p.records]
        /\ console' = console \o p.errors
    /\ UNCHANGED notPair

\* to the third await: extractWorkflows and analyzeServerCommands run
\* (analyzer.ts 53-57)
PairServerCommands(r) ==
    /\ runs[r].pc = "pages"
    /\ \E c \in {AnalyzeServerCommandsOf(runs[r].archive[1])} :
        /\ runs' = [runs EXCEPT ![r].pc = "serverCommands",
                                ![r].workflows = ExtractWorkflows(runs[r].tables),
                                ![r].serverCommands = c.records]
        /\ console' = console \o c.errors
    /\ UNCHANGED notPair

\* to the end: summary and return (analyzer.ts 59-77)
PairReturn(r) ==
    /\ runs[r].pc = "serverCommands"
    /\ runs' = [runs EXCEPT ![r].pc = "returned",
                            ![r].result = Some(ModelOf(runs[r].tables, runs[r].pages,
                                                       runs[r].workflows,
                                                       runs[r].serverCommands))]
    /\ UNCHANGED <<console, notPair>>

\* the entries the archive of call r may hold at position k; the file names
\* of the two calls differ
RunEntriesAt(r, k) ==
    IF r = 1
    THEN { TableBound(10 + k, None), TableUnbalanced(10 + k),
           PageGood("Pages", 10 + k), CmdGood(10 + k) }
    ELSE { TableBound(20 + k, None), PageGood("Pages", 20 + k) }

RECURSIVE RunListings(_, _)
RunListings(r, n) ==
    IF n = 0 THEN {<<>>}
    ELSE {Append(l, e) : l \in RunListings(r, n - 1), e \in RunEntriesAt(r, n)}

RunArchives(r) == {None} \cup {Some(l) : l \in UNION {RunListings(r, n) : n \in 0..MaxRunEntries}}

InitPair ==
    /\ \E a1 \in RunArchives(1), a2 \in RunArchives(2) :
        runs = <<NewRun(a1), NewRun(a2)>>
    /\ console = <<>>
    /\ JsonUnused
    /\ TypeUnused
    /\ CmdUnused
    /\ RunUnused
    /\ ReviewUnused

NextPair ==
    \E r \in {1, 2} :
        \/ PairTables(r)
        \/ PairPages(r)
        \/ PairServerCommands(r)
        \/ PairReturn(r)

SpecPair == InitPair /\ [][NextPair]_vars

\* the model a call on this archive returns when no other call is in flight
AloneModel(archive) ==
    ModelOf(AnalyzeTablesOf(archive).records,
            AnalyzePagesOf(archive).records,
            ExtractWorkflows(AnalyzeTablesOf(archive).records),
            AnalyzeServerCommandsOf(archive).records)

\* the records of a model, of all four collections
RecordsIn(m) == Range(m.tables) \cup Range(m.pages) \cup Range(m.workflows) \cup Range(m.serverCommands)

\* C24: whatever the interleaving of the two calls, a call that has returned
\* has returned the model it returns alone, and none of its records is a
\* record the other call extracted or would extract.
C24_RunsIndependent ==
    \A r \in {1, 2} :
        runs[r].pc = "returned" =>
            /\ runs[r].result = Some(AloneModel(runs[r].archive[1]))
            /\ runs[3 - r].archive # None =>
                /\ RecordsIn(runs[r].result[1]) \cap RecordsIn(AloneModel(runs[3 - r].archive[1])) = {}
                /\ RecordsIn(runs[r].result[1])
                     \cap (Range(runs[3 - r].tables) \cup Range(runs[3 - r].pages)
                           \cup Range(runs[3 - r].workflows)
                           \cup Range(runs[3 - r].serverCommands)) = {}

\* the second call has returned its model of one table and one page while
\* the first call, which has extracted a table and logged a failure, is
\* between its second and its third await
C24_Witness ==
    /\ runs[1].pc = "pages"
    /\ Len(runs[1].tables) = 1
    /\ Len(console) = 1
    /\ runs[2].pc = "returned"
    /\ runs[2].result[1].summary.tableCount = 1
    /\ runs[2].result[1].summary.pageCount = 1
    /\ runs[2].result[1].tables # runs[1].tables

----------------------------------------------------------------------------
(* the depth counter of extractJson (SpecScan) *)

\* the text up to and including the character the scan is at
CutAfterScan == SubSeq(content, 1, Len(content) - Len(cleaned) + i + 1)

\* C25: while extractJson scans, the depth is never negative and is at least
\* 1 once the first '{' is processed; it returns at the first character after
\* which the depth is 0, a '}', without reading further, with the result it
\* has for the text cut after that character; when it runs off the end the
\* depth never came back to 0.
C25_DepthAtLeastOne ==
    /\ outcome = "scan" =>
        /\ start <= i /\ i <= Len(cleaned)
        /\ braceCount >= 0
        /\ i > start => braceCount >= 1
        /\ braceCount = RefState(cleaned, start, i).depth
    /\ (Returned /\ error \in {"none", "Parse"}) =>
        /\ braceCount = 0
        /\ i < Len(cleaned)
        /\ cleaned[i + 1] = RBrace
        /\ \A k \in (start + 1)..i : RefState(cleaned, start, k).depth >= 1
        /\ RefState(cleaned, start, i + 1).depth = 0
        /\ ExtractJson(CutAfterScan).ok = (outcome = "ok")
        /\ ExtractJson(CutAfterScan).val = value
    /\ error = "Unbalanced" =>
        /\ i = Len(cleaned)
        /\ braceCount >= 1
        /\ \A k \in (start + 1)..Len(cleaned) : RefState(cleaned, start, k).depth >= 1

\* {}}{ : the scan has returned the object {} at the first '}' and has read
\* neither the second '}' nor what follows
C25_Witness ==
    /\ content = <<LBrace, RBrace, RBrace, LBrace>>
    /\ outcome = "ok"
    /\ i = 1
    /\ braceCount = 0
    /\ value = ExtractJson(<<LBrace, RBrace>>).val

----------------------------------------------------------------------------
(* Bracketing of the flattened lines (SpecBrackets) *)

MaxNest == 2

\* an unrecognized command whose label reads LOOP
LoopLabelled == LeafNode(Some(<<"X", Dot, "LOOP", Comma, "Asm">>), None, None, None, None, None)

\* SQL text with a line that reads END IF
SqlEndIf ==
    LeafNode(Some(<<"X", Dot, "ExecuteSqlCommand">>), Some(<<"a", NewLine, "END IF">>),
             None, None, None, None)

BracketLeaves == { CallLeaf, LoopLabelled, SqlEndIf }

\* Condition and Loop commands around a nested list, with branches and body
\* present or missing
BracketNodesAround(inner) ==
    { CondNode(NoCond, Some(inner), None),
      CondNode(NoCond, None, Some(inner)),
      CondNode(NoCond, Some(inner), Some(inner)),
      LoopNode(Some(inner)) }

\* command lists nested at most d deep: one command, or one command followed
\* by a leaf
RECURSIVE BracketLists(_)
BracketLists(d) ==
    LET first == BracketLeaves
                 \cup { CondNode(NoCond, None, None), LoopNode(None) }
                 \cup (IF d = 0 THEN {}
                       ELSE UNION { BracketNodesAround(inner) : inner \in BracketLists(d - 1) })
    IN  { <<>> } \cup { <<c>> : c \in first }
        \cup { <<c, CallLeaf>> : c \in first }

InitBrackets ==
    /\ commands \in BracketLists(MaxNest)
    /\ lines = None
    /\ structured = None
    /\ JsonUnused
    /\ TypeUnused
    /\ RunUnused
    /\ ReviewUnused
    /\ PairUnused

NextBrackets == FlattenCall

SpecBrackets == InitBrackets /\ [][NextBrackets]_vars

\* how a line reads once its leading spaces are dropped
LineKind(line) ==
    LET s == Stripped(line) IN
    IF s = <<"END IF">> THEN "END IF"
    ELSE IF s = <<"LOOP">> THEN "LOOP"
    ELSE IF s = <<"END LOOP">> THEN "END LOOP"
    ELSE IF Len(s) >= 2 /\ s[1] = "IF " /\ s[Len(s)] = " THEN" THEN "IF"
    ELSE "other"

Opening(kind) == kind \in {"IF", "LOOP"}

Closing(kind) == kind \in {"END IF", "END LOOP"}

CloserOf(kind) == IF kind = "IF" THEN "END IF" ELSE "END LOOP"

\* the lines read top to bottom nest like parentheses, a closing line having
\* the indentation of the opening line it closes; open is the stack of the
\* opening lines not closed yet
RECURSIVE Bracketed(_, _)
Bracketed(ls, open) ==
    IF ls = <<>> THEN open = <<>>
    ELSE LET kind == LineKind(Head(ls))
             here == [kind |-> kind, spaces |-> LeadingSpaces(Head(ls))]
         IN  IF Opening(kind) THEN Bracketed(Tail(ls), <<here>> \o open)
             ELSE IF Closing(kind)
             THEN /\ open # <<>>
                  /\ CloserOf(open[1].kind) = kind
                  /\ open[1].spaces = here.spaces
                  /\ Bracketed(Tail(ls), Tail(open))
             ELSE Bracketed(Tail(ls), open)

CountOf(ls, kinds) == Cardinality({k \in 1..Len(ls) : LineKind(ls[k]) \in kinds})

\* the occurrences of Condition and Loop commands, each with the position of
\* its last line
BracketOccurrences ==
    { [pos |-> occ.pos, depth |-> occ.depth, cmd |-> occ.cmd,
       last |-> occ.pos + Len(FlattenCommandsToText(<<occ.cmd>>, occ.depth)) - 1] :
      occ \in { o \in CmdOccurrences(commands, 0, 0) : IsCondition(o.cmd) \/ IsLoop(o.cmd) } }

\* the lines, at depth 0, of the commands that are neither Condition nor Loop
LeafLines ==
    UNION { Chars(FlattenCommandsToText(<<occ.cmd>>, 0)) :
            occ \in { o \in CmdOccurrences(commands, 0, 0) : ~IsCondition(o.cmd) /\ ~IsLoop(o.cmd) } }

\* C26 as stated: the flattened lines of every command list are properly
\* bracketed, with as many opening as closing lines.
C26_ProperlyBracketed ==
    lines # None =>
        /\ Bracketed(lines[1], <<>>)
        /\ CountOf(lines[1], {"IF", "LOOP"}) = CountOf(lines[1], {"END IF", "END LOOP"})

\* C26, amended: every Condition or Loop command opens with its IF ... THEN or
\* LOOP line and ends with its END IF or END LOOP line, both indented by two
\* spaces for each level, whether or not its branches or body are present;
\* the spans of two such commands are nested or disjoint; and the whole text
\* is properly bracketed, with as many opening as closing lines, when no line
\* of another command reads as an opening or closing line.
C26_BracketedBySource ==
    lines # None =>
        /\ \A occ \in BracketOccurrences :
            /\ occ.pos < occ.last /\ occ.last <= Len(lines[1])
            /\ LineKind(lines[1][occ.pos]) = (IF IsCondition(occ.cmd) THEN "IF" ELSE "LOOP")
            /\ LineKind(lines[1][occ.last]) = CloserOf(LineKind(lines[1][occ.pos]))
            /\ LeadingSpaces(lines[1][occ.pos]) = 2 * occ.depth
            /\ LeadingSpaces(lines[1][occ.last]) = 2 * occ.depth
            /\ \A k \in (occ.pos + 1)..(occ.last - 1) :
                   LeadingSpaces(lines[1][k]) >= 2 * occ.depth
        /\ \A a, b \in BracketOccurrences :
            \/ a = b
            \/ a.last < b.pos \/ b.last < a.pos
            \/ (a.pos < b.pos /\ b.last < a.last)
            \/ (b.pos < a.pos /\ a.last < b.last)
        /\ (\A l \in LeafLines : LineKind(l) = "other") =>
            /\ Bracketed(lines[1], <<>>)
            /\ CountOf(lines[1], {"IF", "LOOP"}) = CountOf(lines[1], {"END IF", "END LOOP"})
            /\ CountOf(lines[1], {"IF", "LOOP"}) = Cardinality(BracketOccurrences)

\* a Loop without a body inside the true branch of a Condition without a
\* false branch: four lines, properly bracketed
C26_Witness ==
    /\ commands = <<CondNode(NoCond, Some(<<LoopNode(None), CallLeaf>>), None)>>
    /\ lines # None
    /\ Len(lines[1]) = 5
    /\ lines[1][2] = <<"  ", "LOOP">>
    /\ lines[1][3] = <<"  ", "END LOOP">>
    /\ lines[1][5] = <<"END IF">>
    /\ Bracketed(lines[1], <<>>)

----------------------------------------------------------------------------
(* The owner table name of a workflow (SpecWorkflows) *)

\* the table records of ts whose workflow names another table than its own
ForeignOwners(ts) ==
    {k \in BoundAt(ts) : ts[k].workflow[1].tableName # ts[k].name}

\* C27 as stated: every workflow carries the name of the table record that
\* owns it, also when the table's name is the file stem of its entry.
C27_OwnerIsTableName ==
    /\ ForeignOwners(tables) = {}
    /\ result # None => ForeignOwners(result[1].tables) = {}

\* what the code does: the owner name of a workflow is its table's name
\* exactly when the entry's stem is not used for the name; a table named
\* after its file stem has a workflow with the empty owner name
C27_OwnerEmptyForStemName ==
    \A k \in BoundAt(tables) :
        \/ tables[k].workflow[1].tableName = tables[k].name
        \/ /\ tables[k].workflow[1].tableName = <<>>
           /\ tables[k].name \in {Stem(j) : j \in 1..Len(entries[1])}

\* the model returned for one table without a Name and with a workflow: the
\* table is named after its file, its workflow has no owner name
C27_StemNamedTable ==
    /\ result # None
    /\ Len(result[1].tables) = 1
    /\ result[1].tables[1].name = Stem(1)
    /\ result[1].workflows = <<result[1].tables[1].workflow[1]>>
    /\ result[1].workflows[1].tableName = <<>>

----------------------------------------------------------------------------
(* Conditions of transitions, from the table document to the reviewer        *)
(* (SpecConditions): one table is analysed and the workflow of the model     *)
(* returned is handed to checkWorkflowIssues.                                *)

MaxSourceTransitions == 2

\* Conditions in each shape, one with a discriminator of neither shape and
\* one with an Expression but no discriminator
ConditionSamples ==
    { None,
      Some(Cond(Some(<<"X", Dot, "ExpressionCondition", Comma, "Asm">>), Some(<<"a > 1">>),
                None, None, None)),
      Some(Cond(Some(<<"X", Dot, "CompareCondition">>), None, Some(<<"l">>), None, Some(<<"r">>))),
      Some(Cond(Some(<<"X", Dot, "OtherCondition">>), Some(<<"a > 1">>), None, None, None)),
      Some(Cond(None, Some(<<"a > 1">>), None, None, None)) }

TransitionSamples ==
    { Transition(Some(StateName(from)), Some(StateName(2)), Some(<<"go">>), cond,
                 Some(<<>>), None) :
      from \in {1, 2}, cond \in ConditionSamples }

TableWithTransitions(transitions) ==
    Entry(EntryName("Tables", None, Stem(1), ".json"), GoodText,
          TableJson(Some(<<"T">>), Absent, Absent,
                    Some(WorkflowJson(Some(<<State(Some(StateName(1)), Some(TRUE), None),
                                              State(Some(StateName(2)), None, Some(TRUE))>>),
                                      transitions))))

\* a table that has no bound workflow
TablePlain ==
    Entry(EntryName("Tables", None, Stem(1), ".json"), GoodText,
          TableJson(Some(<<"T">>), Absent, Absent, None))

\* checkWorkflowIssues(analysis) takes the workflow of the model returned
\* (reviewer.ts 345-348); the archive has one table, so at most one workflow
CheckWorkflowIssuesCall ==
    /\ result # None
    /\ reviewPc = "unused"
    /\ IF result[1].workflows = <<>>
       THEN /\ reviewPc' = "done"
            /\ wf' = wf
       ELSE /\ reviewPc' = "start"
            /\ wf' = result[1].workflows[1]
    /\ UNCHANGED <<queue, reachableStates, issues, notReview>>

InitConditions ==
    /\ build = "analyzer.ts"
    /\ entries \in {Some(<<TablePlain>>), Some(<<TableWithTransitions(None)>>)}
                   \cup {Some(<<TableWithTransitions(Some(l))>>) :
                         l \in StringsUpTo(TransitionSamples, MaxSourceTransitions)}
    /\ pc = "tables"
    /\ pos = 0
    /\ tables = <<>>
    /\ pages = <<>>
    /\ workflows = <<>>
    /\ serverCommands = <<>>
    /\ log = <<>>
    /\ result = None
    /\ response = None
    /\ JsonUnused
    /\ TypeUnused
    /\ CmdUnused
    /\ ReviewUnused
    /\ PairUnused

NextConditions ==
    \/ AnalyzeTablesEntry
    \/ AnalyzeTablesReturn
    \/ AnalyzePagesNextLoop
    \/ AnalyzePagesReturn
    \/ ExtractWorkflowsCall
    \/ AnalyzeServerCommandsReturn
    \/ AnalyzeProjectReturn
    \/ CheckWorkflowIssuesCall
    \/ CheckWorkflowIssuesOpen
    \/ ReachStep
    \/ ReportOrphans

SpecConditions == InitConditions /\ [][NextConditions]_vars

\* the Transitions of the table document
SourceTransitions == ListOf(entries[1][1].data.BindingRelatedWorkflow[1].Transitions)

\* the discriminator of a source Condition names neither shape
NeitherShape(cond) ==
    /\ ~Includes(OrElse(cond.type, <<>>), "ExpressionCondition")
    /\ ~Includes(OrElse(cond.type, <<>>), "CompareCondition")

\* the source transitions that leave state s with no Condition or with one
\* of neither shape
Unguarded(s) ==
    {k \in 1..Len(SourceTransitions) :
        /\ SourceTransitions[k].SourceStateName = Some(s)
        /\ \/ SourceTransitions[k].Condition = None
           \/ NeitherShape(SourceTransitions[k].Condition[1])}

\* C28: a transition has at most one condition; a source Condition whose
\* discriminator is of neither shape gives the empty condition list, as no
\* Condition does; and the reviewer reports a state for several unconditional
\* transitions exactly when two or more such transitions leave it.
C28_NeitherShapeIsUnconditional ==
    /\ \A t \in Chars(tables) : t.workflow # None =>
        /\ Len(t.workflow[1].transitions) = Len(SourceTransitions)
        /\ \A k \in 1..Len(SourceTransitions) :
            LET source == SourceTransitions[k].Condition
                conditions == t.workflow[1].transitions[k].conditions
            IN  /\ Len(conditions) <= 1
                /\ (conditions = <<>>) = (source = None \/ NeitherShape(source[1]))
    /\ reviewPc \in {"reach", "done"} /\ wf # <<>> =>
        \A s \in {StateName(1), StateName(2)} :
            (Issue("several unconditional transitions", s) \in Chars(issues))
                = (Cardinality(Unguarded(s)) > 1)

\* two transitions leave s1, one without a Condition and one whose Condition
\* has the discriminator X.OtherCondition: the review reports s1
C28_Witness ==
    /\ reviewPc = "done"
    /\ wf # <<>>
    /\ Len(SourceTransitions) = 2
    /\ SourceTransitions[1].Condition = None
    /\ SourceTransitions[2].Condition # None
    /\ SourceTransitions[2].Condition[1].type = Some(<<"X", Dot, "OtherCondition">>)
    /\ wf.transitions[2].conditions = <<>>
    /\ Issue("several unconditional transitions", StateName(1)) \in Chars(issues)

----------------------------------------------------------------------------
(* Pages and master pages in one listing (SpecPageOrder) *)

MaxPageEntries == 3

\* the k-th entry of a listing: a page, a master page, or a page that cannot
\* be read
PageEntriesAt(k) ==
    { PageGood("Pages", k), PageGood("MasterPages", k), PageUnparseable("Pages", k) }

RECURSIVE PageListings(_)
PageListings(n) ==
    IF n = 0 THEN {<<>>}
    ELSE {Append(l, e) : l \in PageListings(n - 1), e \in PageEntriesAt(n)}

InitPageOrder ==
    /\ build = "analyzer.ts"
    /\ entries \in {Some(l) : l \in UNION {PageListings(n) : n \in 0..MaxPageEntries}}
    /\ pc = "pages"
    /\ pos = 0
    /\ tables = <<>>
    /\ pages = <<>>
    /\ workflows = <<>>
    /\ serverCommands = <<>>
    /\ log = <<>>
    /\ result = None
    /\ response = None
    /\ JsonUnused
    /\ TypeUnused
    /\ CmdUnused
    /\ ReviewUnused
    /\ PairUnused

NextPageOrder ==
    \/ AnalyzePagesEntry
    \/ AnalyzePagesNextLoop
    \/ AnalyzeMasterPagesEntry
    \/ AnalyzePagesReturn
    \/ ExtractWorkflowsCall
    \/ AnalyzeServerCommandsReturn
    \/ AnalyzeProjectReturn

SpecPageOrder == InitPageOrder /\ [][NextPageOrder]_vars

\* in ps no record of kind masterPage comes before a record of kind page,
\* and the kind of a record is that of the directory of its entry
PagesFirst(ps) ==
    /\ \A j, k \in 1..Len(ps) :
        (ps[j].type = "masterPage" /\ ps[k].type = "page") => k < j
    /\ \A k \in 1..Len(ps) :
        /\ ps[k].type \in {"page", "masterPage"}
        /\ (ps[k].type = "page") = (ps[k].path.dir = "Pages")

\* C29: in the pages array, while it is built and in the model returned,
\* every record of kind page precedes every record of kind masterPage,
\* wherever the Pages/ and MasterPages/ entries stand in the listing.
C29_PagesBeforeMasterPages ==
    /\ PagesFirst(pages)
    /\ result # None => PagesFirst(result[1].pages)

\* the listing has a master page, an unreadable page and a page, in this
\* order: the model returned has the page first
C29_Witness ==
    /\ entries = Some(<<PageGood("MasterPages", 1), PageUnparseable("Pages", 2),
                        PageGood("Pages", 3)>>)
    /\ result # None
    /\ Len(result[1].pages) = 2
    /\ result[1].pages[1].type = "page"
    /\ result[1].pages[1].path.stem = Stem(3)
    /\ result[1].pages[2].type = "masterPage"
    /\ result[1].pages[2].path.stem = Stem(1)

----------------------------------------------------------------------------
(* Termination of the reachability search (SpecSearchFair) *)

MaxSearchStates == 2

MaxSearchLinks == 2

\* the declared states s1 .. sn, each initial or not
SearchStateLists ==
    UNION {{[k \in 1..n |-> [name |-> StateName(k), isInitial |-> init[k], isFinal |-> None]] :
                init \in [1..n -> {Some(TRUE), None}]} : n \in 0..MaxSearchStates}

SearchNames == {StateName(k) : k \in 1..MaxSearchStates} \cup {Ghost}

\* every transition between two different names, one of them possibly not
\* declared, and the self-loop s1 -> s1
SearchLinks ==
    {l \in {Link(from, to) : from \in SearchNames, to \in SearchNames} : l.fromState # l.toState}
        \cup {Link(StateName(1), StateName(1))}

\* the workflows reviewed: transitions in a list, so that one can occur twice
InitSearch ==
    /\ \E states \in SearchStateLists, transitions \in StringsUpTo(SearchLinks, MaxSearchLinks) :
        wf = [tableName |-> <<"T">>, states |-> states, transitions |-> transitions]
    /\ reviewPc = "start"
    /\ queue = <<>>
    /\ reachableStates = {}
    /\ issues = <<>>
    /\ JsonUnused
    /\ TypeUnused
    /\ CmdUnused
    /\ RunUnused
    /\ PairUnused

SpecSearch == InitSearch /\ [][NextReview]_vars

\* checkWorkflowIssues is synchronous code: once called it runs every
\* iteration of its loops, so a step that can be taken is taken
SpecSearchFair == SpecSearch /\ WF_vars(NextReview)

\* one iteration of the while loop either adds a name that was not reached
\* yet, or leaves the reached names alone and shortens the queue by one
SearchProgress ==
    (reviewPc = "reach" /\ reviewPc' = "reach") =>
        \/ /\ Head(queue) \notin reachableStates
           /\ reachableStates' = reachableStates \cup {Head(queue)}
        \/ /\ Head(queue) \in reachableStates
           /\ reachableStates' = reachableStates
           /\ queue' = Tail(queue)

\* C30: the search ends for every workflow, with cycles, self-loops,
\* duplicate transitions or undeclared targets: a name is added to the
\* reached names at most once and never removed, and the review ends with an
\* empty queue.
C30_SearchTerminates ==
    /\ [][SearchProgress]_vars
    /\ [][reachableStates \subseteq reachableStates']_vars
    /\ [](reviewPc = "done" => queue = <<>>)
    /\ <>(reviewPc = "done" /\ queue = <<>>)

\* the search has ended on the cycle s1 -> s2 -> s1
C30_Witness ==
    /\ reviewPc = "done"
    /\ queue = <<>>
    /\ Len(wf.states) >= 2
    /\ wf.transitions = <<Link(StateName(1), StateName(2)), Link(StateName(2), StateName(1))>>
    /\ reachableStates = {StateName(1), StateName(2)}

====
